---- MODULE Spec2Model ----
(***************************************************************************)
(* The collective-signing (CoSi) consensus core of the kernel: the action  *)
(* loop of kernel/cosi.go, the round graph it mutates and the new-round    *)
(* logic of kernel/final.go, seen from one node (Self).                    *)
(*                                                                         *)
(* Hashes are modelled as tagged tuples of the hashed fields, so that two  *)
(* payloads have the same hash exactly when the hashed fields agree.       *)
(* An optional value (a Go pointer that may be nil) is a sequence of       *)
(* length 0 or 1.                                                          *)
(***************************************************************************)
EXTENDS Integers, Sequences, FiniteSets, TLC

VARIABLES
    now,            \* the wall clock, time.Now().UnixNano()
    cosiActionsChan,\* node.cosiActionsChan: the actions waiting for the loop
    inflight,       \* the actions received by CosiLoop and being handled
    loop,           \* CosiLoop: "run", "exit" (returned an error), "panic"
    CacheRound,     \* node.Graph.CacheRound: chain -> open round
    FinalRound,     \* node.Graph.FinalRound: chain -> closed round
    GraphTimestamp, \* node.Graph.GraphTimestamp
    rounds,         \* persistStore: the rounds ReadRound finds, by hash
    links,          \* persistStore: ReadLink, <<from, to>> -> round number
    snapshots,      \* persistStore: the written SnapshotWithTopologicalOrder
    topo,           \* node.TopoCounter: the next order to hand out
    aggKeys,        \* node.CosiAggregators.m: key -> aggregator record id
    aggs,           \* the CosiAggregator records, by id
    CosiVerifiers,  \* node.CosiVerifiers: snapshot hash -> CosiVerifier
    CachedTransactions, \* CachePutTransaction: the <<peer, transaction>> kept
    heads,          \* persistStore: the head round of each chain
    FinalCache,     \* node.Graph.FinalCache: the summary given to peers
    sent,           \* the peer messages sent by the last step
    inputs,         \* how many snapshots the environment has handed in
    neighbor,       \* syncToNeighborLoop for one neighbor: its offset, its
                    \* filter and what it sent
    last            \* the branch the last step left a handler through, if
                    \* it ran one, and the action it handled

vars == <<now, cosiActionsChan, inflight, loop, CacheRound, FinalRound,
          GraphTimestamp, rounds, links, snapshots, topo, aggKeys, aggs,
          CosiVerifiers, CachedTransactions, heads, FinalCache, sent, inputs,
          neighbor, last>>

(***************************************************************************)
(* Bounds of the model.                                                    *)
(***************************************************************************)
MaxInputs == 2
MaxQueue == 2
MaxClock == 1

(***************************************************************************)
(* Program constants.                                                      *)
(***************************************************************************)
CosiActionSelfEmpty == 0
CosiActionSelfCommitment == 1
CosiActionSelfResponse == 2
CosiActionExternalAnnouncement == 3
CosiActionExternalChallenge == 4
CosiActionFinalization == 5

SnapshotVersion == 1
SnapshotRoundGap == 2
SnapshotReferenceThreshold == 1
ProposerRefreshFactor == 36
AnnouncementRefreshFactor == 32

Self == "A"
ConsensusNodes == {"A", "B", "C", "D"}
SortedConsensusNodes == <<"A", "B", "C", "D">>
Chains == ConsensusNodes

Transactions == {"t1", "t2"}
AcceptTransactions == {"ta"}

Nil == <<>>
Some(v) == <<v>>
ZeroHash == <<>>
BadHash == <<"x">>

Max(a, b) == IF a >= b THEN a ELSE b

(***************************************************************************)
(* Snapshots, payload hash, rounds.                                        *)
(***************************************************************************)
NoReferences == [Self |-> ZeroHash, External |-> ZeroHash]

NewSnapshot(node, tx) ==
    [Version |-> SnapshotVersion, NodeId |-> node, RoundNumber |-> 0,
     References |-> NoReferences, Transaction |-> tx, Timestamp |-> 0,
     Signature |-> Nil]

PayloadHash(s) ==
    <<"s", s.Version, s.NodeId, s.RoundNumber, s.References.Self,
      s.References.External, s.Transaction, s.Timestamp>>

TransactionKey(tx) == <<"t", tx>>

RECURSIVE SnapshotHashes(_)
SnapshotHashes(ss) ==
    IF ss = <<>> THEN <<>>
    ELSE <<PayloadHash(Head(ss))>> \o SnapshotHashes(Tail(ss))

RoundHash(node, number, ss) == <<"r", node, number, SnapshotHashes(ss)>>

NewCacheRound(node, number, ts, refs) ==
    [NodeId |-> node, Number |-> number, Timestamp |-> ts,
     References |-> refs, Snapshots |-> <<>>]

\* CacheRound.Gap: the window covered by the snapshots of the round.
Gap(cache) ==
    IF cache.Snapshots = <<>> THEN <<cache.Timestamp, cache.Timestamp>>
    ELSE <<cache.Snapshots[1].Timestamp,
           cache.Snapshots[Len(cache.Snapshots)].Timestamp>>

\* CacheRound.asFinal: nil for a round without snapshots.
asFinal(cache) ==
    IF cache.Snapshots = <<>> THEN Nil
    ELSE Some([NodeId |-> cache.NodeId, Number |-> cache.Number,
               Start |-> Gap(cache)[1], End |-> Gap(cache)[2],
               Hash |-> RoundHash(cache.NodeId, cache.Number, cache.Snapshots)])

ReferencesEqual(a, b) == a.Self = b.Self /\ a.External = b.External

\* CacheRound.ValidateSnapshot(s, add): <<ok, cache'>>.
ValidateSnapshot(cache, s, add) ==
    LET ok == /\ s.NodeId = cache.NodeId
              /\ s.RoundNumber = cache.Number
              /\ ReferencesEqual(s.References, cache.References)
              /\ \A i \in 1..Len(cache.Snapshots) :
                    /\ cache.Snapshots[i].Timestamp < s.Timestamp
                    /\ cache.Snapshots[i].Transaction # s.Transaction
              /\ (cache.Snapshots # <<>> =>
                    s.Timestamp < Gap(cache)[1] + SnapshotRoundGap)
    IN  IF ok /\ add
        THEN <<TRUE, [cache EXCEPT !.Snapshots = Append(@, s),
                                   !.Timestamp = Max(@, s.Timestamp)]>>
        ELSE <<ok, cache>>

(***************************************************************************)
(* The crypto kit, symbolically: a commitment is the public part of a      *)
(* nonce, a response names the signer, the nonce and the challenge, and an *)
(* aggregate is the collection of its parts.                               *)
(***************************************************************************)
Nonces == {1, 2}
Public(r) == <<"P", r>>
Challenge(R, message) == <<R, message>>
Response(index, r, R, message) == <<"S", index, r, Challenge(R, message)>>

IndexOf(peer) == CHOOSE i \in 1..Len(SortedConsensusNodes) :
                    SortedConsensusNodes[i] = peer

\* crypto.CosiAggregateCommitment: commitments is a set of <<index, point>>.
CosiAggregateCommitment(commitments) == [R |-> commitments, S |-> {}]

Mask(sig) == {p[1] : p \in sig.R}

\* CosiSignature.VerifyResponse
VerifyResponse(sig, index, response, message) ==
    \E p \in sig.R : \E r \in Nonces :
        /\ p = <<index, Public(r)>>
        /\ response = Response(index, r, sig.R, message)

\* CosiSignature.AggregateResponse: responses is a set of <<index, scalar>>.
AggregateResponse(sig, responses) == [sig EXCEPT !.S = responses]

ConsensusThreshold(ts) == (Cardinality(ConsensusNodes) * 2) \div 3 + 1

\* node.CacheVerifyCosi
CacheVerifyCosi(hash, sig, base) ==
    /\ Cardinality(Mask(sig)) >= base
    /\ Cardinality(sig.R) = Cardinality(Mask(sig))
    /\ Mask(sig) \subseteq 1..Len(SortedConsensusNodes)
    /\ {p[1] : p \in sig.S} = Mask(sig)
    /\ Cardinality(sig.S) = Cardinality(Mask(sig))
    /\ \A p \in sig.S : VerifyResponse(sig, p[1], p[2], hash)

\* An aggregate over hash signed by the committee members at the indices M.
SignedBy(M, hash) ==
    LET R == {<<i, Public(1)>> : i \in M}
    IN  [R |-> R, S |-> {<<i, Response(i, 1, R, hash)>> : i \in M}]

(***************************************************************************)
(* The node state the handlers work on, as one record:                     *)
(*   cache, final, gts      the round graph                                *)
(*   rounds, links, heads, snaps   the persistent store                    *)
(*   topo                   the topological counter                        *)
(*   keys, aggs             the aggregator registry                        *)
(*   ver                    the verifier registry                          *)
(* A handler yields a record [st, q, out, exit, loop]: the new node state, *)
(* the actions it queues, the messages it sends, the name of the branch it *)
(* left through and what becomes of the loop.                              *)
(***************************************************************************)
Done(st, q, out, exit) ==
    [st |-> st, q |-> q, out |-> out, exit |-> exit, loop |-> "run"]
Panic(st, exit) ==
    [st |-> st, q |-> <<>>, out |-> {}, exit |-> exit, loop |-> "panic"]
\* the handler slept until the clock showed ts
At(ts, r) == [clock |-> ts] @@ r

\* persistStore.ReadRound: the round with this hash, if any.
ReadRound(st, hash) ==
    IF \E r \in st.rounds : r.Hash = hash
    THEN Some(CHOOSE r \in st.rounds : r.Hash = hash)
    ELSE Nil

\* persistStore.ReadLink
ReadLink(st, from, to) == st.links[<<from, to>>]

\* persistStore.CheckTransactionInNode
CheckTransactionInNode(st, node, tx) ==
    \E i \in 1..Len(st.snaps) :
        /\ st.snaps[i].Snapshot.NodeId = node
        /\ st.snaps[i].Snapshot.Transaction = tx

\* node.checkTransaction: is the transaction finalized by a written snapshot
TransactionFinalized(st, tx) ==
    \E i \in 1..Len(st.snaps) : st.snaps[i].Snapshot.Transaction = tx

\* persistStore.StartNewRound: the sealed round becomes readable by its hash
StartNewRound(st, node, number, refs, start) ==
    [st EXCEPT
        !.rounds = @ \cup {[Hash |-> refs.Self, NodeId |-> node,
                            Number |-> number - 1, Timestamp |-> start]},
        !.heads = [@ EXCEPT ![node] = [Number |-> number, References |-> refs]]]

\* persistStore.UpdateEmptyHeadRound
UpdateEmptyHeadRound(st, node, number, refs) ==
    [st EXCEPT
        !.heads = [@ EXCEPT ![node] = [Number |-> number, References |-> refs]]]

\* node.TopoCounter.Next: the order handed out is st.topo
TopoNext(st) == [st EXCEPT !.topo = @ + 1]

\* persistStore.WriteSnapshot: the snapshot is stored with its order, and the
\* link to the chain of its external round is recorded.
WriteSnapshot(st, s, order) ==
    LET ext == ReadRound(st, s.References.External)
    IN  [st EXCEPT
            !.snaps = Append(@, [Snapshot |-> s, TopologicalOrder |-> order]),
            !.links = IF ext = Nil THEN @
                      ELSE [@ EXCEPT ![<<s.NodeId, ext[1].NodeId>>] =
                                Max(@, ext[1].Number)]]

\* node.assignNewGraphRound
assignNewGraphRound(st, final, cache) ==
    [st EXCEPT !.cache = [@ EXCEPT ![cache.NodeId] = Some(cache)],
               !.final = [@ EXCEPT ![cache.NodeId] = final],
               !.gts = Max(@, cache.Timestamp)]

\* node.checkInitialAcceptSnapshot
checkInitialAcceptSnapshot(st, s, tx) ==
    /\ tx \in AcceptTransactions
    /\ s.RoundNumber = 0
    /\ st.final[s.NodeId] = Nil

\* node.validateKernelSnapshot: a pledging chain takes only its accept
\* transaction, an accepted chain only ordinary transactions.
validateKernelSnapshot(st, s, tx) ==
    (tx \in AcceptTransactions) <=> (st.final[s.NodeId] = Nil)

\* node.finalizeNodeAcceptSnapshot: the snapshot is written with the next
\* order (the bootstrap of the new chain's rounds is not modelled).
finalizeNodeAcceptSnapshot(st, s) == WriteSnapshot(TopoNext(st), s, st.topo)

\* node.QueueAppendSnapshot as used by queueSnapshotOrPanic
QueuedAction(peer, s, finalized) ==
    [Action |-> IF finalized THEN CosiActionFinalization
                ELSE IF s.NodeId = Self THEN CosiActionSelfEmpty
                ELSE CosiActionExternalAnnouncement,
     PeerId |-> peer, Snapshot |-> s]

queueSnapshotOrPanic(peer, s, finalized) == <<QueuedAction(peer, s, finalized)>>

Drop(f, ks) == [k \in (DOMAIN f) \ ks |-> f[k]]

\* node.clearAndQueueSnapshotOrPanic: the registries forget the snapshot, and
\* a blank snapshot of the same transaction is queued.
ClearRegistries(st, s, hash) ==
    LET keys == Drop(st.keys, {hash, TransactionKey(s.Transaction)})
        live == {keys[k] : k \in DOMAIN keys}
    IN  [st EXCEPT !.keys = keys,
                   !.aggs = [i \in live |-> st.aggs[i]],
                   !.ver = Drop(@, {hash})]

clearAndQueueSnapshotOrPanic(s) ==
    queueSnapshotOrPanic(Self, NewSnapshot(s.NodeId, s.Transaction), FALSE)

(***************************************************************************)
(* New rounds (kernel/final.go).                                           *)
(***************************************************************************)
\* node.startNewRound(s, cache, allowDummy): [round, dummy, err]
startNewRound(st, s, cache, allowDummy) ==
    LET final == asFinal(cache)
        external == ReadRound(st, s.References.External)
        previous == ReadRound(st, cache.References.External)
        no(err) == [round |-> Nil, dummy |-> FALSE, err |-> err]
    IN  IF final = Nil THEN no(TRUE)
        ELSE IF s.References.Self # final[1].Hash THEN no(TRUE)
        ELSE IF external = Nil
            THEN IF allowDummy
                 THEN [round |-> final, dummy |-> TRUE, err |-> FALSE]
                 ELSE no(TRUE)
        ELSE IF external[1].NodeId = s.NodeId THEN no(FALSE)
        ELSE IF /\ previous # Nil
                /\ external[1].Timestamp
                     + SnapshotReferenceThreshold * SnapshotRoundGap
                   < previous[1].Timestamp
            THEN no(FALSE)
        ELSE IF external[1].Number <= ReadLink(st, s.NodeId, external[1].NodeId)
            THEN no(FALSE)
        ELSE [round |-> final, dummy |-> FALSE, err |-> FALSE]

\* tryToStartNewRound that takes the external reference of the snapshot even
\* when its round is not known
tryToStartNewRoundNoPlaceholder(st, s) ==
    LET stay(err) == [st |-> st, err |-> err]
    IN  IF st.final[s.NodeId] = Nil /\ s.RoundNumber = 0 THEN stay(FALSE)
        ELSE IF st.cache[s.NodeId] = Nil THEN stay(TRUE)
        ELSE
        LET cache == st.cache[s.NodeId][1]
            dummyExternal == cache.References.External
            r == startNewRound(st, s, cache, TRUE)
            new == NewCacheRound(s.NodeId, s.RoundNumber, s.Timestamp,
                     [Self |-> s.References.Self,
                      External |-> s.References.External])
        IN  IF s.RoundNumber # cache.Number + 1 THEN stay(FALSE)
            ELSE IF r.err THEN stay(TRUE)
            ELSE IF r.round = Nil THEN stay(FALSE)
            ELSE [st |-> assignNewGraphRound(
                            StartNewRound(st, new.NodeId, new.Number,
                                          new.References, r.round[1].Start),
                            r.round, new),
                  err |-> FALSE]

\* chain.tryToStartNewRound(s): [st, err]
tryToStartNewRound(st, s) ==
    LET stay(err) == [st |-> st, err |-> err]
    IN  IF st.final[s.NodeId] = Nil /\ s.RoundNumber = 0 THEN stay(FALSE)
        ELSE IF st.cache[s.NodeId] = Nil THEN stay(TRUE)
        ELSE
        LET cache == st.cache[s.NodeId][1]
            dummyExternal == cache.References.External
            r == startNewRound(st, s, cache, TRUE)
            new == NewCacheRound(s.NodeId, s.RoundNumber, s.Timestamp,
                     [Self |-> s.References.Self,
                      External |-> IF r.dummy THEN dummyExternal
                                   ELSE s.References.External])
        IN  IF s.RoundNumber # cache.Number + 1 THEN stay(FALSE)
            ELSE IF r.err THEN stay(TRUE)
            ELSE IF r.round = Nil THEN stay(FALSE)
            ELSE [st |-> assignNewGraphRound(
                            StartNewRound(st, new.NodeId, new.Number,
                                          new.References, r.round[1].Start),
                            r.round, new),
                  err |-> FALSE]

(***************************************************************************)
(* The finalization acceptor.                                              *)
(***************************************************************************)
\* the check without the threshold: any aggregate passes
VerifyCosiAnySigners(s) == s.Signature # Nil

\* The check of an aggregate against the committee keys and the threshold at
\* the snapshot's timestamp (cosi.go 730-735).
VerifyCosi(s) ==
    /\ s.Signature # Nil
    /\ CacheVerifyCosi(PayloadHash(s), s.Signature[1],
                       ConsensusThreshold(s.Timestamp))

\* node.verifyFinalization
verifyFinalization(s) == VerifyCosi(s)

\* cosiHandleFinalization without the validation against the cache round
FinalizeInRoundUnchecked(st, peer, s) ==
    LET cache == st.cache[s.NodeId][1]
        final == st.final[s.NodeId]
        requeue == queueSnapshotOrPanic(peer, s, TRUE)
        next == s.RoundNumber = cache.Number + 1
        r == startNewRound(st, s, cache, FALSE)
        final2 == IF next THEN r.round ELSE final
        cache2 == IF next
                  THEN NewCacheRound(s.NodeId, s.RoundNumber, s.Timestamp,
                                     s.References)
                  ELSE cache
        st2 == assignNewGraphRound(
                 IF next
                 THEN StartNewRound(st, cache2.NodeId, cache2.Number,
                                    cache2.References, final2[1].Start)
                 ELSE st,
                 final2, cache2)
        st3 == WriteSnapshot(TopoNext(st2), s, st2.topo)
        added == <<TRUE, [cache2 EXCEPT !.Snapshots = Append(@, s),
                                        !.Timestamp = Max(@, s.Timestamp)]>>
    IN  IF s.RoundNumber < cache.Number THEN Done(st, <<>>, {}, "old round")
        ELSE IF s.RoundNumber > cache.Number + 1
            THEN Done(st, requeue, {}, "future round")
        ELSE IF /\ s.RoundNumber = cache.Number
                /\ ~ReferencesEqual(s.References, cache.References)
            THEN IF s.NodeId = Self THEN Done(st, <<>>, {}, "own references")
                 ELSE IF Len(cache.Snapshots) # 0
                    THEN Done(st, <<>>, {}, "references differ")
                 ELSE Done(assignNewGraphRound(
                             UpdateEmptyHeadRound(st, cache.NodeId,
                                                  cache.Number, s.References),
                             final,
                             [cache EXCEPT !.References = s.References]),
                           requeue, {}, "references rewritten")
        ELSE IF next /\ r.err THEN Done(st, requeue, {}, "new round error")
        ELSE IF next /\ r.round = Nil THEN Done(st, <<>>, {}, "no new round")
        ELSE IF ~added[1] THEN Panic(st3, "should never be here")
        ELSE Done(assignNewGraphRound(st3, final2, added[2]), <<>>, {},
                  "finalized")

\* cosiHandleFinalization that rewrites the references of a round that holds
\* snapshots
FinalizeInRoundOverwrite(st, peer, s) ==
    LET cache == st.cache[s.NodeId][1]
        final == st.final[s.NodeId]
        requeue == queueSnapshotOrPanic(peer, s, TRUE)
        next == s.RoundNumber = cache.Number + 1
        r == startNewRound(st, s, cache, FALSE)
        final2 == IF next THEN r.round ELSE final
        cache2 == IF next
                  THEN NewCacheRound(s.NodeId, s.RoundNumber, s.Timestamp,
                                     s.References)
                  ELSE cache
        st2 == assignNewGraphRound(
                 IF next
                 THEN StartNewRound(st, cache2.NodeId, cache2.Number,
                                    cache2.References, final2[1].Start)
                 ELSE st,
                 final2, cache2)
        st3 == WriteSnapshot(TopoNext(st2), s, st2.topo)
        added == ValidateSnapshot(cache2, s, TRUE)
    IN  IF s.RoundNumber < cache.Number THEN Done(st, <<>>, {}, "old round")
        ELSE IF s.RoundNumber > cache.Number + 1
            THEN Done(st, requeue, {}, "future round")
        ELSE IF /\ s.RoundNumber = cache.Number
                /\ ~ReferencesEqual(s.References, cache.References)
            THEN IF s.NodeId = Self THEN Done(st, <<>>, {}, "own references")
                 ELSE Done(assignNewGraphRound(
                             UpdateEmptyHeadRound(st, cache.NodeId,
                                                  cache.Number, s.References),
                             final,
                             [cache EXCEPT !.References = s.References]),
                           requeue, {}, "references rewritten")
        ELSE IF next /\ r.err THEN Done(st, requeue, {}, "new round error")
        ELSE IF next /\ r.round = Nil THEN Done(st, <<>>, {}, "no new round")
        ELSE IF ~ValidateSnapshot(cache2, s, FALSE)[1]
            THEN Done(st2, <<>>, {}, "invalid")
        ELSE IF ~added[1] THEN Panic(st3, "should never be here")
        ELSE Done(assignNewGraphRound(st3, final2, added[2]), <<>>, {},
                  "finalized")

\* cosiHandleFinalization that takes the snapshot into the round without
\* writing it to the store
FinalizeInRoundUnwritten(st, peer, s) ==
    LET cache == st.cache[s.NodeId][1]
        final == st.final[s.NodeId]
        requeue == queueSnapshotOrPanic(peer, s, TRUE)
        next == s.RoundNumber = cache.Number + 1
        r == startNewRound(st, s, cache, FALSE)
        final2 == IF next THEN r.round ELSE final
        cache2 == IF next
                  THEN NewCacheRound(s.NodeId, s.RoundNumber, s.Timestamp,
                                     s.References)
                  ELSE cache
        st2 == assignNewGraphRound(
                 IF next
                 THEN StartNewRound(st, cache2.NodeId, cache2.Number,
                                    cache2.References, final2[1].Start)
                 ELSE st,
                 final2, cache2)
        st3 == TopoNext(st2)
        added == ValidateSnapshot(cache2, s, TRUE)
    IN  IF s.RoundNumber < cache.Number THEN Done(st, <<>>, {}, "old round")
        ELSE IF s.RoundNumber > cache.Number + 1
            THEN Done(st, requeue, {}, "future round")
        ELSE IF /\ s.RoundNumber = cache.Number
                /\ ~ReferencesEqual(s.References, cache.References)
            THEN IF s.NodeId = Self THEN Done(st, <<>>, {}, "own references")
                 ELSE IF Len(cache.Snapshots) # 0
                    THEN Done(st, <<>>, {}, "references differ")
                 ELSE Done(assignNewGraphRound(
                             UpdateEmptyHeadRound(st, cache.NodeId,
                                                  cache.Number, s.References),
                             final,
                             [cache EXCEPT !.References = s.References]),
                           requeue, {}, "references rewritten")
        ELSE IF next /\ r.err THEN Done(st, requeue, {}, "new round error")
        ELSE IF next /\ r.round = Nil THEN Done(st, <<>>, {}, "no new round")
        ELSE IF ~ValidateSnapshot(cache2, s, FALSE)[1]
            THEN Done(st2, <<>>, {}, "invalid")
        ELSE IF ~added[1] THEN Panic(st3, "should never be here")
        ELSE Done(assignNewGraphRound(st3, final2, added[2]), <<>>, {},
                  "finalized")

\* node.cosiHandleFinalization, from the round checks on (cosi.go 541-602)
FinalizeInRound(st, peer, s) ==
    LET cache == st.cache[s.NodeId][1]
        final == st.final[s.NodeId]
        requeue == queueSnapshotOrPanic(peer, s, TRUE)
        next == s.RoundNumber = cache.Number + 1
        r == startNewRound(st, s, cache, FALSE)
        final2 == IF next THEN r.round ELSE final
        cache2 == IF next
                  THEN NewCacheRound(s.NodeId, s.RoundNumber, s.Timestamp,
                                     s.References)
                  ELSE cache
        st2 == assignNewGraphRound(
                 IF next
                 THEN StartNewRound(st, cache2.NodeId, cache2.Number,
                                    cache2.References, final2[1].Start)
                 ELSE st,
                 final2, cache2)
        st3 == WriteSnapshot(TopoNext(st2), s, st2.topo)
        added == ValidateSnapshot(cache2, s, TRUE)
    IN  IF s.RoundNumber < cache.Number THEN Done(st, <<>>, {}, "old round")
        ELSE IF s.RoundNumber > cache.Number + 1
            THEN Done(st, requeue, {}, "future round")
        ELSE IF /\ s.RoundNumber = cache.Number
                /\ ~ReferencesEqual(s.References, cache.References)
            THEN IF s.NodeId = Self THEN Done(st, <<>>, {}, "own references")
                 ELSE IF Len(cache.Snapshots) # 0
                    THEN Done(st, <<>>, {}, "references differ")
                 ELSE Done(assignNewGraphRound(
                             UpdateEmptyHeadRound(st, cache.NodeId,
                                                  cache.Number, s.References),
                             final,
                             [cache EXCEPT !.References = s.References]),
                           requeue, {}, "references rewritten")
        ELSE IF next /\ r.err THEN Done(st, requeue, {}, "new round error")
        ELSE IF next /\ r.round = Nil THEN Done(st, <<>>, {}, "no new round")
        ELSE IF ~ValidateSnapshot(cache2, s, FALSE)[1]
            THEN Done(st2, <<>>, {}, "invalid")
        ELSE IF ~added[1] THEN Panic(st3, "should never be here")
        ELSE Done(assignNewGraphRound(st3, final2, added[2]), <<>>, {},
                  "finalized")

\* node.cosiHandleFinalization
cosiHandleFinalization(st, peer, s, tx) ==
    IF checkInitialAcceptSnapshot(st, s, tx)
    THEN Done(finalizeNodeAcceptSnapshot(st, s), <<>>, {}, "accept finalized")
    ELSE IF st.cache[s.NodeId] = Nil \/ st.final[s.NodeId] = Nil
        THEN Panic(st, "nil round")
    ELSE FinalizeInRound(st, peer, s)

\* checkFinalSnapshotTransaction that does not look the transaction up in
\* the chain
checkFinalSnapshotTransactionUnrecorded(st, s) ==
    [tx |-> Some(s.Transaction), inNode |-> FALSE]

\* node.checkFinalSnapshotTransaction: [tx, inNode]
checkFinalSnapshotTransaction(st, s) ==
    IF CheckTransactionInNode(st, s.NodeId, s.Transaction)
    THEN [tx |-> Nil, inNode |-> TRUE]
    ELSE [tx |-> Some(s.Transaction), inNode |-> FALSE]

\* handleFinalization without the look-up of the transaction in the chain
handleFinalizationAgain(st, m) ==
    LET s == m.Snapshot
        started == tryToStartNewRound(st, s)
    IN  IF ~verifyFinalization(s) THEN Done(st, <<>>, {}, "not verified")
        ELSE IF started.err
            THEN Done(st, queueSnapshotOrPanic(m.PeerId, s, TRUE), {},
                      "not accepted yet")
        ELSE cosiHandleFinalization(started.st, m.PeerId, s, s.Transaction)

\* node.handleFinalization
handleFinalization(st, m) ==
    LET s == m.Snapshot
        started == tryToStartNewRound(st, s)
        checked == checkFinalSnapshotTransaction(started.st, s)
    IN  IF ~verifyFinalization(s) THEN Done(st, <<>>, {}, "not verified")
        ELSE IF started.err
            THEN Done(st, queueSnapshotOrPanic(m.PeerId, s, TRUE), {},
                      "not accepted yet")
        ELSE IF checked.tx = Nil
            THEN Done(started.st, <<>>, {}, "in node")
        ELSE cosiHandleFinalization(started.st, m.PeerId, s, checked.tx[1])

(***************************************************************************)
(* The aggregator registry.  A key maps to the id of a record: two keys    *)
(* with the same id share one CosiAggregator, as two map entries holding    *)
(* the same pointer do.  A record no key maps to is garbage.               *)
(***************************************************************************)
Get(st, k) == IF k \in DOMAIN st.keys THEN Some(st.aggs[st.keys[k]]) ELSE Nil

Collect(st) ==
    [st EXCEPT !.aggs = [i \in {st.keys[k] : k \in DOMAIN st.keys} |-> @[i]]]

FreshId(st) == CHOOSE i \in 1..(Cardinality(DOMAIN st.aggs) + 1) :
                  i \notin DOMAIN st.aggs

\* aggregatorMap.Set with a new record
SetNew(st, k, id, agg) ==
    Collect([st EXCEPT !.aggs = (id :> agg) @@ @, !.keys = (k :> id) @@ @])

\* aggregatorMap.Set with the record another key already maps to
SetSame(st, k, id) == Collect([st EXCEPT !.keys = (k :> id) @@ @])

\* a write through the pointer
Update(st, k, agg) == [st EXCEPT !.aggs = [@ EXCEPT ![st.keys[k]] = agg]]

NewAggregator(s, tx) ==
    [Snapshot |-> s, Transaction |-> tx, WantTxs |-> {}, Commitments |-> {},
     Responses |-> {}, committed |-> {}, responsed |-> {}]

Broadcast(type, s) ==
    {[type |-> type, to |-> id, snapshot |-> s] : id \in ConsensusNodes}

(***************************************************************************)
(* Best round (spec-level contract of node.determinBestRound).             *)
(***************************************************************************)
Better(a, b) ==
    \/ a.Start > b.Start
    \/ a.Start = b.Start /\ a.Number > b.Number
    \/ a.Start = b.Start /\ a.Number = b.Number
         /\ IndexOf(a.NodeId) < IndexOf(b.NodeId)

determinBestRound(st, ts) ==
    LET cands == {st.final[n][1] :
                    n \in {c \in Chains \ {Self} :
                             /\ st.final[c] # Nil
                             /\ st.final[c][1].End + SnapshotRoundGap <= ts
                             /\ st.final[c][1].Number > ReadLink(st, Self, c)}}
    IN  IF cands = {} THEN Nil
        ELSE Some(CHOOSE c \in cands : \A d \in cands \ {c} : Better(c, d))

(***************************************************************************)
(* The proposer path.                                                      *)
(***************************************************************************)
\* AnnounceInRound that opens the new round on the external reference of the old one
AnnounceInRoundKeepExternal(st0, m, agg, id, broadcasted, ts) ==
    LET s0 == m.Snapshot
        st == SetNew(st0, TransactionKey(s0.Transaction), id, agg)
        cache == st.cache[s0.NodeId][1]
        final == st.final[s0.NodeId]
        s1 == [s0 EXCEPT !.Timestamp = ts]
        stamped == Update(st, TransactionKey(s0.Transaction),
                          [agg EXCEPT !.Snapshot = s1])
        cleared == ClearRegistries(stamped, s1, ZeroHash)
        external == ReadRound(st, cache.References.External)
        best == determinBestRound(st, ts)
        refresh == /\ Len(cache.Snapshots) = 0
                   /\ best # Nil
                   /\ best[1].NodeId # final[1].NodeId
                   /\ external[1].Timestamp + SnapshotReferenceThreshold
                        * SnapshotRoundGap * ProposerRefreshFactor
                      < best[1].Start
        rollover == /\ Len(cache.Snapshots) # 0
                    /\ ts >= Gap(cache)[1] + SnapshotRoundGap
        fresh == NewCacheRound(cache.NodeId, cache.Number, 0,
                    [Self |-> final[1].Hash, External |-> best[1].Hash])
        final2 == IF rollover THEN asFinal(cache) ELSE final
        cache2 == IF rollover
                  THEN NewCacheRound(s0.NodeId, final2[1].Number + 1, 0,
                         [Self |-> final2[1].Hash,
                          External |-> cache.References.External])
                  ELSE cache
        cache3 == [cache2 EXCEPT !.Timestamp = ts]
        s2 == [s1 EXCEPT !.RoundNumber = cache3.Number,
                         !.References = cache3.References]
        st2 == IF rollover
               THEN StartNewRound(stamped, cache2.NodeId, cache2.Number,
                                  cache2.References, final2[1].Start)
               ELSE stamped
        st3 == SetSame(Update(assignNewGraphRound(st2, final2, cache3),
                              TransactionKey(s0.Transaction),
                              [agg EXCEPT !.Snapshot = s2]),
                       PayloadHash(s2), id)
    IN  IF Len(cache.Snapshots) = 0 /\ ~broadcasted
        THEN Done(st, queueSnapshotOrPanic(m.PeerId, s0, FALSE), {},
                  "not broadcast")
        ELSE IF Len(cache.Snapshots) = 0 /\ external = Nil
            THEN At(ts, Panic(stamped, "nil round"))
        ELSE IF refresh
            THEN IF best[1].Number <= ReadLink(st, cache.NodeId, best[1].NodeId)
                 THEN At(ts, Done(cleared, clearAndQueueSnapshotOrPanic(s1),
                                  {}, "link not advanced"))
                 ELSE At(ts, Done(assignNewGraphRound(
                                    UpdateEmptyHeadRound(cleared, fresh.NodeId,
                                        fresh.Number, fresh.References),
                                    final, fresh),
                                  clearAndQueueSnapshotOrPanic(s1), {},
                                  "references refreshed"))
        ELSE IF rollover /\ best = Nil
            THEN At(ts, Done(cleared, clearAndQueueSnapshotOrPanic(s1), {},
                             "no best round"))
        ELSE IF rollover /\ best[1].NodeId = final[1].NodeId
            THEN At(ts, Panic(stamped, "should never be here"))
        ELSE At(ts, Done(st3, <<>>, Broadcast("Announcement", s2),
                         IF rollover THEN "announced in new round"
                         ELSE "announced"))

\* cosiSendAnnouncement that leaves the timestamp of the cache round as it is
AnnounceInRoundUnraised(st0, m, agg, id, broadcasted, ts) ==
    LET s0 == m.Snapshot
        st == SetNew(st0, TransactionKey(s0.Transaction), id, agg)
        cache == st.cache[s0.NodeId][1]
        final == st.final[s0.NodeId]
        s1 == [s0 EXCEPT !.Timestamp = ts]
        stamped == Update(st, TransactionKey(s0.Transaction),
                          [agg EXCEPT !.Snapshot = s1])
        cleared == ClearRegistries(stamped, s1, ZeroHash)
        external == ReadRound(st, cache.References.External)
        best == determinBestRound(st, ts)
        refresh == /\ Len(cache.Snapshots) = 0
                   /\ best # Nil
                   /\ best[1].NodeId # final[1].NodeId
                   /\ external[1].Timestamp + SnapshotReferenceThreshold
                        * SnapshotRoundGap * ProposerRefreshFactor
                      < best[1].Start
        rollover == /\ Len(cache.Snapshots) # 0
                    /\ ts >= Gap(cache)[1] + SnapshotRoundGap
        fresh == NewCacheRound(cache.NodeId, cache.Number, 0,
                    [Self |-> final[1].Hash, External |-> best[1].Hash])
        final2 == IF rollover THEN asFinal(cache) ELSE final
        cache2 == IF rollover
                  THEN NewCacheRound(s0.NodeId, final2[1].Number + 1, 0,
                         [Self |-> final2[1].Hash, External |-> best[1].Hash])
                  ELSE cache
        cache3 == cache2
        s2 == [s1 EXCEPT !.RoundNumber = cache3.Number,
                         !.References = cache3.References]
        st2 == IF rollover
               THEN StartNewRound(stamped, cache2.NodeId, cache2.Number,
                                  cache2.References, final2[1].Start)
               ELSE stamped
        st3 == SetSame(Update(assignNewGraphRound(st2, final2, cache3),
                              TransactionKey(s0.Transaction),
                              [agg EXCEPT !.Snapshot = s2]),
                       PayloadHash(s2), id)
    IN  IF Len(cache.Snapshots) = 0 /\ ~broadcasted
        THEN Done(st, queueSnapshotOrPanic(m.PeerId, s0, FALSE), {},
                  "not broadcast")
        ELSE IF Len(cache.Snapshots) = 0 /\ external = Nil
            THEN At(ts, Panic(stamped, "nil round"))
        ELSE IF refresh
            THEN IF best[1].Number <= ReadLink(st, cache.NodeId, best[1].NodeId)
                 THEN At(ts, Done(cleared, clearAndQueueSnapshotOrPanic(s1),
                                  {}, "link not advanced"))
                 ELSE At(ts, Done(assignNewGraphRound(
                                    UpdateEmptyHeadRound(cleared, fresh.NodeId,
                                        fresh.Number, fresh.References),
                                    final, fresh),
                                  clearAndQueueSnapshotOrPanic(s1), {},
                                  "references refreshed"))
        ELSE IF rollover /\ best = Nil
            THEN At(ts, Done(cleared, clearAndQueueSnapshotOrPanic(s1), {},
                             "no best round"))
        ELSE IF rollover /\ best[1].NodeId = final[1].NodeId
            THEN At(ts, Panic(stamped, "should never be here"))
        ELSE At(ts, Done(st3, <<>>, Broadcast("Announcement", s2),
                         IF rollover THEN "announced in new round"
                         ELSE "announced"))

\* cosiSendAnnouncement from the copy of the rounds on (cosi.go 139-221):
\* s is stamped with ts, the clock value at which the wait loop ends.
AnnounceInRound(st0, m, agg, id, broadcasted, ts) ==
    LET s0 == m.Snapshot
        st == SetNew(st0, TransactionKey(s0.Transaction), id, agg)
        cache == st.cache[s0.NodeId][1]
        final == st.final[s0.NodeId]
        s1 == [s0 EXCEPT !.Timestamp = ts]
        stamped == Update(st, TransactionKey(s0.Transaction),
                          [agg EXCEPT !.Snapshot = s1])
        cleared == ClearRegistries(stamped, s1, ZeroHash)
        external == ReadRound(st, cache.References.External)
        best == determinBestRound(st, ts)
        refresh == /\ Len(cache.Snapshots) = 0
                   /\ best # Nil
                   /\ best[1].NodeId # final[1].NodeId
                   /\ external[1].Timestamp + SnapshotReferenceThreshold
                        * SnapshotRoundGap * ProposerRefreshFactor
                      < best[1].Start
        rollover == /\ Len(cache.Snapshots) # 0
                    /\ ts >= Gap(cache)[1] + SnapshotRoundGap
        fresh == NewCacheRound(cache.NodeId, cache.Number, 0,
                    [Self |-> final[1].Hash, External |-> best[1].Hash])
        final2 == IF rollover THEN asFinal(cache) ELSE final
        cache2 == IF rollover
                  THEN NewCacheRound(s0.NodeId, final2[1].Number + 1, 0,
                         [Self |-> final2[1].Hash, External |-> best[1].Hash])
                  ELSE cache
        cache3 == [cache2 EXCEPT !.Timestamp = ts]
        s2 == [s1 EXCEPT !.RoundNumber = cache3.Number,
                         !.References = cache3.References]
        st2 == IF rollover
               THEN StartNewRound(stamped, cache2.NodeId, cache2.Number,
                                  cache2.References, final2[1].Start)
               ELSE stamped
        st3 == SetSame(Update(assignNewGraphRound(st2, final2, cache3),
                              TransactionKey(s0.Transaction),
                              [agg EXCEPT !.Snapshot = s2]),
                       PayloadHash(s2), id)
    IN  IF Len(cache.Snapshots) = 0 /\ ~broadcasted
        THEN Done(st, queueSnapshotOrPanic(m.PeerId, s0, FALSE), {},
                  "not broadcast")
        ELSE IF Len(cache.Snapshots) = 0 /\ external = Nil
            THEN At(ts, Panic(stamped, "nil round"))
        ELSE IF refresh
            THEN IF best[1].Number <= ReadLink(st, cache.NodeId, best[1].NodeId)
                 THEN At(ts, Done(cleared, clearAndQueueSnapshotOrPanic(s1),
                                  {}, "link not advanced"))
                 ELSE At(ts, Done(assignNewGraphRound(
                                    UpdateEmptyHeadRound(cleared, fresh.NodeId,
                                        fresh.Number, fresh.References),
                                    final, fresh),
                                  clearAndQueueSnapshotOrPanic(s1), {},
                                  "references refreshed"))
        ELSE IF rollover /\ best = Nil
            THEN At(ts, Done(cleared, clearAndQueueSnapshotOrPanic(s1), {},
                             "no best round"))
        ELSE IF rollover /\ best[1].NodeId = final[1].NodeId
            THEN At(ts, Panic(stamped, "should never be here"))
        ELSE At(ts, Done(st3, <<>>, Broadcast("Announcement", s2),
                         IF rollover THEN "announced in new round"
                         ELSE "announced"))

\* a stamping loop that reads the clock once
StampOnce(st, s, clock) == clock

\* The clock value at which the stamping loop of cosiSendAnnouncement ends.
StampFor(st, s, clock) ==
    IF st.cache[s.NodeId] = Nil THEN clock
    ELSE Max(clock, st.cache[s.NodeId][1].Timestamp + 1)

\* cosiSendAnnouncement without the look-up of an aggregator of the transaction
cosiSendAnnouncementAgain(st, m, caught, broadcasted, clock) ==
    LET s == m.Snapshot
        tx == s.Transaction
        agg == NewAggregator(s, tx)
        id == FreshId(st)
        s1 == [s EXCEPT !.Timestamp = clock]
        accept == SetSame(SetNew(st, TransactionKey(tx), id,
                                 [agg EXCEPT !.Snapshot = s1]),
                          PayloadHash(s1), id)
    IN  IF ~caught
        THEN Done(st, queueSnapshotOrPanic(m.PeerId, s, FALSE), {},
                  "not caught up")
        ELSE IF \/ s.NodeId # Self \/ s.Version # SnapshotVersion
                \/ s.Signature # Nil \/ s.Timestamp # 0
            THEN Panic(st, "should never be here")
        ELSE IF TransactionFinalized(st, tx) THEN Done(st, <<>>, {}, "finalized")
        ELSE IF ~validateKernelSnapshot(st, s, tx)
            THEN Done(st, <<>>, {}, "kernel invalid")
        ELSE IF checkInitialAcceptSnapshot(st, s, tx)
            THEN Done(accept, <<>>, Broadcast("Announcement", s1),
                      "accept announced")
        ELSE IF st.cache[s.NodeId] = Nil \/ st.final[s.NodeId] = Nil
            THEN Panic(st, "nil round")
        ELSE AnnounceInRound(st, m, agg, id, broadcasted,
                             StampFor(st, s, clock))

\* node.cosiSendAnnouncement
cosiSendAnnouncement(st, m, caught, broadcasted, clock) ==
    LET s == m.Snapshot
        tx == s.Transaction
        agg == NewAggregator(s, tx)
        id == FreshId(st)
        s1 == [s EXCEPT !.Timestamp = clock]
        accept == SetSame(SetNew(st, TransactionKey(tx), id,
                                 [agg EXCEPT !.Snapshot = s1]),
                          PayloadHash(s1), id)
    IN  IF ~caught
        THEN Done(st, queueSnapshotOrPanic(m.PeerId, s, FALSE), {},
                  "not caught up")
        ELSE IF \/ s.NodeId # Self \/ s.Version # SnapshotVersion
                \/ s.Signature # Nil \/ s.Timestamp # 0
            THEN Panic(st, "should never be here")
        ELSE IF TransactionFinalized(st, tx) THEN Done(st, <<>>, {}, "finalized")
        ELSE IF ~validateKernelSnapshot(st, s, tx)
            THEN Done(st, <<>>, {}, "kernel invalid")
        ELSE IF checkInitialAcceptSnapshot(st, s, tx)
            THEN Done(accept, <<>>, Broadcast("Announcement", s1),
                      "accept announced")
        ELSE IF Get(st, TransactionKey(tx)) # Nil
            THEN Done(st, <<>>, {}, "duplicate")
        ELSE IF st.cache[s.NodeId] = Nil \/ st.final[s.NodeId] = Nil
            THEN Panic(st, "nil round")
        ELSE AnnounceInRound(st, m, agg, id, broadcasted,
                             StampFor(st, s, clock))

\* cosiHandleCommitment that counts a peer again
cosiHandleCommitmentRepeated(st, m, caught) ==
    LET found == Get(st, m.SnapshotHash)
        ann == found[1]
        ann1 == [ann EXCEPT !.committed = @ \cup {m.PeerId}]
        base == ConsensusThreshold(ann.Snapshot.Timestamp)
        ann2 == [ann1 EXCEPT
                    !.Commitments =
                        {p \in @ : p[1] # IndexOf(m.PeerId)}
                        \cup {<<IndexOf(m.PeerId), m.Commitment>>},
                    !.WantTxs = {p \in @ : p[1] # m.PeerId}
                                \cup {<<m.PeerId, m.WantTx>>}]
        cosi == CosiAggregateCommitment(ann2.Commitments)
        ann3 == [ann2 EXCEPT !.Snapshot.Signature = Some(cosi)]
    IN  IF ~caught THEN Done(st, <<>>, {}, "not caught up")
        ELSE IF found = Nil THEN Done(st, <<>>, {}, "no aggregator")
        ELSE IF m.PeerId \notin ConsensusNodes
            THEN Done(Update(st, m.SnapshotHash, ann1), <<>>, {}, "unknown peer")
        ELSE IF Cardinality(ann.Commitments) >= base
            THEN Done(Update(st, m.SnapshotHash, ann1), <<>>, {}, "enough")
        ELSE IF Cardinality(ann2.Commitments) < base
            THEN Done(Update(st, m.SnapshotHash, ann2), <<>>, {}, "committed")
        ELSE IF TransactionFinalized(st, ann.Snapshot.Transaction)
            THEN Done(Update(st, m.SnapshotHash, ann2), <<>>, {}, "finalized")
        ELSE Done(Update(st, m.SnapshotHash, ann3), <<>>,
                  {[type |-> "Challenge", to |-> p[1],
                    hash |-> m.SnapshotHash, cosi |-> cosi,
                    tx |-> IF p[2] THEN Some(ann.Transaction) ELSE Nil] :
                      p \in ann2.WantTxs},
                  "challenged")

\* cosiHandleCommitment that goes on collecting at the threshold
cosiHandleCommitmentBeyond(st, m, caught) ==
    LET found == Get(st, m.SnapshotHash)
        ann == found[1]
        ann1 == [ann EXCEPT !.committed = @ \cup {m.PeerId}]
        base == ConsensusThreshold(ann.Snapshot.Timestamp)
        ann2 == [ann1 EXCEPT
                    !.Commitments =
                        {p \in @ : p[1] # IndexOf(m.PeerId)}
                        \cup {<<IndexOf(m.PeerId), m.Commitment>>},
                    !.WantTxs = {p \in @ : p[1] # m.PeerId}
                                \cup {<<m.PeerId, m.WantTx>>}]
        cosi == CosiAggregateCommitment(ann2.Commitments)
        ann3 == [ann2 EXCEPT !.Snapshot.Signature = Some(cosi)]
    IN  IF ~caught THEN Done(st, <<>>, {}, "not caught up")
        ELSE IF found = Nil THEN Done(st, <<>>, {}, "no aggregator")
        ELSE IF m.PeerId \in ann.committed
            THEN Done(st, <<>>, {}, "already committed")
        ELSE IF m.PeerId \notin ConsensusNodes
            THEN Done(Update(st, m.SnapshotHash, ann1), <<>>, {}, "unknown peer")
        ELSE IF Cardinality(ann2.Commitments) < base
            THEN Done(Update(st, m.SnapshotHash, ann2), <<>>, {}, "committed")
        ELSE IF TransactionFinalized(st, ann.Snapshot.Transaction)
            THEN Done(Update(st, m.SnapshotHash, ann2), <<>>, {}, "finalized")
        ELSE Done(Update(st, m.SnapshotHash, ann3), <<>>,
                  {[type |-> "Challenge", to |-> p[1],
                    hash |-> m.SnapshotHash, cosi |-> cosi,
                    tx |-> IF p[2] THEN Some(ann.Transaction) ELSE Nil] :
                      p \in ann2.WantTxs},
                  "challenged")

\* cosiHandleCommitment that challenges the whole committee
cosiHandleCommitmentToAll(st, m, caught) ==
    LET found == Get(st, m.SnapshotHash)
        ann == found[1]
        ann1 == [ann EXCEPT !.committed = @ \cup {m.PeerId}]
        base == ConsensusThreshold(ann.Snapshot.Timestamp)
        ann2 == [ann1 EXCEPT
                    !.Commitments =
                        {p \in @ : p[1] # IndexOf(m.PeerId)}
                        \cup {<<IndexOf(m.PeerId), m.Commitment>>},
                    !.WantTxs = {p \in @ : p[1] # m.PeerId}
                                \cup {<<m.PeerId, m.WantTx>>}]
        cosi == CosiAggregateCommitment(ann2.Commitments)
        ann3 == [ann2 EXCEPT !.Snapshot.Signature = Some(cosi)]
    IN  IF ~caught THEN Done(st, <<>>, {}, "not caught up")
        ELSE IF found = Nil THEN Done(st, <<>>, {}, "no aggregator")
        ELSE IF m.PeerId \in ann.committed
            THEN Done(st, <<>>, {}, "already committed")
        ELSE IF m.PeerId \notin ConsensusNodes
            THEN Done(Update(st, m.SnapshotHash, ann1), <<>>, {}, "unknown peer")
        ELSE IF Cardinality(ann.Commitments) >= base
            THEN Done(Update(st, m.SnapshotHash, ann1), <<>>, {}, "enough")
        ELSE IF Cardinality(ann2.Commitments) < base
            THEN Done(Update(st, m.SnapshotHash, ann2), <<>>, {}, "committed")
        ELSE IF TransactionFinalized(st, ann.Snapshot.Transaction)
            THEN Done(Update(st, m.SnapshotHash, ann2), <<>>, {}, "finalized")
        ELSE Done(Update(st, m.SnapshotHash, ann3), <<>>,
                  {[type |-> "Challenge", to |-> id,
                    hash |-> m.SnapshotHash, cosi |-> cosi,
                    tx |-> IF <<id, TRUE>> \in ann2.WantTxs
                           THEN Some(ann.Transaction) ELSE Nil] :
                      id \in ConsensusNodes},
                  "challenged")

\* node.cosiHandleCommitment
cosiHandleCommitment(st, m, caught) ==
    LET found == Get(st, m.SnapshotHash)
        ann == found[1]
        ann1 == [ann EXCEPT !.committed = @ \cup {m.PeerId}]
        base == ConsensusThreshold(ann.Snapshot.Timestamp)
        ann2 == [ann1 EXCEPT
                    !.Commitments =
                        {p \in @ : p[1] # IndexOf(m.PeerId)}
                        \cup {<<IndexOf(m.PeerId), m.Commitment>>},
                    !.WantTxs = {p \in @ : p[1] # m.PeerId}
                                \cup {<<m.PeerId, m.WantTx>>}]
        cosi == CosiAggregateCommitment(ann2.Commitments)
        ann3 == [ann2 EXCEPT !.Snapshot.Signature = Some(cosi)]
    IN  IF ~caught THEN Done(st, <<>>, {}, "not caught up")
        ELSE IF found = Nil THEN Done(st, <<>>, {}, "no aggregator")
        ELSE IF m.PeerId \in ann.committed
            THEN Done(st, <<>>, {}, "already committed")
        ELSE IF m.PeerId \notin ConsensusNodes
            THEN Done(Update(st, m.SnapshotHash, ann1), <<>>, {}, "unknown peer")
        ELSE IF Cardinality(ann.Commitments) >= base
            THEN Done(Update(st, m.SnapshotHash, ann1), <<>>, {}, "enough")
        ELSE IF Cardinality(ann2.Commitments) < base
            THEN Done(Update(st, m.SnapshotHash, ann2), <<>>, {}, "committed")
        ELSE IF TransactionFinalized(st, ann.Snapshot.Transaction)
            THEN Done(Update(st, m.SnapshotHash, ann2), <<>>, {}, "finalized")
        ELSE Done(Update(st, m.SnapshotHash, ann3), <<>>,
                  {[type |-> "Challenge", to |-> p[1],
                    hash |-> m.SnapshotHash, cosi |-> cosi,
                    tx |-> IF p[2] THEN Some(ann.Transaction) ELSE Nil] :
                      p \in ann2.WantTxs},
                  "challenged")

\* cosiHandleResponse that writes without advancing the counter
PersistSignedSameOrder(st, m, agg, s) ==
    LET cache == st.cache[s.NodeId][1]
        cleared == ClearRegistries(st, s, PayloadHash(s))
        requeue == clearAndQueueSnapshotOrPanic(s)
        st2 == WriteSnapshot(st, s, st.topo)
        added == ValidateSnapshot(cache, s, TRUE)
    IN  IF s.RoundNumber > cache.Number THEN Panic(st, "should never be here")
        ELSE IF s.RoundNumber < cache.Number
            THEN Done(cleared, requeue, {}, "round passed")
        ELSE IF ~ReferencesEqual(s.References, cache.References)
            THEN Done(cleared, requeue, {}, "references changed")
        ELSE IF ~ValidateSnapshot(cache, s, FALSE)[1]
            THEN Done(cleared, requeue, {}, "invalid")
        ELSE IF ~added[1] THEN Panic(st2, "should never be here")
        ELSE Done([st2 EXCEPT !.cache = [@ EXCEPT ![s.NodeId] = Some(added[2])]],
                  <<>>, Broadcast("Finalization", s), "signed")

\* cosiHandleResponse that sends the Finalization to the other members only
PersistSignedToPeers(st, m, agg, s) ==
    LET cache == st.cache[s.NodeId][1]
        cleared == ClearRegistries(st, s, PayloadHash(s))
        requeue == clearAndQueueSnapshotOrPanic(s)
        st2 == WriteSnapshot(TopoNext(st), s, st.topo)
        added == ValidateSnapshot(cache, s, TRUE)
    IN  IF s.RoundNumber > cache.Number THEN Panic(st, "should never be here")
        ELSE IF s.RoundNumber < cache.Number
            THEN Done(cleared, requeue, {}, "round passed")
        ELSE IF ~ReferencesEqual(s.References, cache.References)
            THEN Done(cleared, requeue, {}, "references changed")
        ELSE IF ~ValidateSnapshot(cache, s, FALSE)[1]
            THEN Done(cleared, requeue, {}, "invalid")
        ELSE IF ~added[1] THEN Panic(st2, "should never be here")
        ELSE Done([st2 EXCEPT !.cache = [@ EXCEPT ![s.NodeId] = Some(added[2])]],
                  <<>>,
                  {msg \in Broadcast("Finalization", s) : msg.to # Self},
                  "signed")

\* PersistSigned that does not compare the snapshot with the cache round
PersistSignedAnyRound(st, m, agg, s) ==
    LET cache == st.cache[s.NodeId][1]
        cleared == ClearRegistries(st, s, PayloadHash(s))
        requeue == clearAndQueueSnapshotOrPanic(s)
        st2 == WriteSnapshot(TopoNext(st), s, st.topo)
        added == ValidateSnapshot(cache, s, TRUE)
    IN  IF s.RoundNumber > cache.Number THEN Panic(st, "should never be here")
        ELSE Done([st2 EXCEPT !.cache = [@ EXCEPT ![s.NodeId] =
                      Some([cache EXCEPT !.Snapshots = Append(@, s)])]],
                  <<>>, Broadcast("Finalization", s), "signed")

\* cosiHandleResponse from the copy of the cache round on (cosi.go 494-527)
PersistSigned(st, m, agg, s) ==
    LET cache == st.cache[s.NodeId][1]
        cleared == ClearRegistries(st, s, PayloadHash(s))
        requeue == clearAndQueueSnapshotOrPanic(s)
        st2 == WriteSnapshot(TopoNext(st), s, st.topo)
        added == ValidateSnapshot(cache, s, TRUE)
    IN  IF s.RoundNumber > cache.Number THEN Panic(st, "should never be here")
        ELSE IF s.RoundNumber < cache.Number
            THEN Done(cleared, requeue, {}, "round passed")
        ELSE IF ~ReferencesEqual(s.References, cache.References)
            THEN Done(cleared, requeue, {}, "references changed")
        ELSE IF ~ValidateSnapshot(cache, s, FALSE)[1]
            THEN Done(cleared, requeue, {}, "invalid")
        ELSE IF ~added[1] THEN Panic(st2, "should never be here")
        ELSE Done([st2 EXCEPT !.cache = [@ EXCEPT ![s.NodeId] = Some(added[2])]],
                  <<>>, Broadcast("Finalization", s), "signed")

\* cosiHandleResponse that does not verify the aggregate it built
cosiHandleResponseUnverified(st, m, caught) ==
    LET found == Get(st, m.SnapshotHash)
        agg == found[1]
        agg1 == [agg EXCEPT
                    !.responsed = @ \cup {m.PeerId},
                    !.Responses = {p \in @ : p[1] # IndexOf(m.PeerId)}
                                  \cup {<<IndexOf(m.PeerId), m.Response>>}]
        base == ConsensusThreshold(agg.Snapshot.Timestamp)
        sig == AggregateResponse(agg.Snapshot.Signature[1], agg1.Responses)
        agg2 == [agg1 EXCEPT !.Snapshot.Signature = Some(sig)]
        s == agg2.Snapshot
        st2 == Update(st, m.SnapshotHash, agg2)
    IN  IF ~caught THEN Done(st, <<>>, {}, "not caught up")
        ELSE IF found = Nil THEN Done(st, <<>>, {}, "no aggregator")
        ELSE IF m.PeerId \in agg.responsed
            THEN Done(st, <<>>, {}, "already responded")
        ELSE IF m.PeerId \notin ConsensusNodes
            THEN Done(st, <<>>, {}, "unknown peer")
        ELSE IF Cardinality(agg.Responses) >= Cardinality(agg.Commitments)
            THEN Done(st, <<>>, {}, "enough")
        ELSE IF TransactionFinalized(st, agg.Snapshot.Transaction)
            THEN Done(st, <<>>, {}, "finalized")
        ELSE IF Cardinality(agg1.Responses) # Cardinality(agg.Commitments)
            THEN Done(Update(st, m.SnapshotHash, agg1), <<>>, {}, "responded")
        ELSE IF agg.Snapshot.Signature = Nil
            THEN Panic(Update(st, m.SnapshotHash, agg1), "nil signature")
        ELSE IF checkInitialAcceptSnapshot(st, s, agg.Transaction)
            THEN Done(finalizeNodeAcceptSnapshot(st2, s), <<>>,
                      Broadcast("Finalization", s), "accept signed")
        ELSE IF st.cache[s.NodeId] = Nil THEN Panic(st2, "nil round")
        ELSE PersistSigned(st2, m, agg2, s)

\* node.cosiHandleResponse
cosiHandleResponse(st, m, caught) ==
    LET found == Get(st, m.SnapshotHash)
        agg == found[1]
        agg1 == [agg EXCEPT
                    !.responsed = @ \cup {m.PeerId},
                    !.Responses = {p \in @ : p[1] # IndexOf(m.PeerId)}
                                  \cup {<<IndexOf(m.PeerId), m.Response>>}]
        base == ConsensusThreshold(agg.Snapshot.Timestamp)
        sig == AggregateResponse(agg.Snapshot.Signature[1], agg1.Responses)
        agg2 == [agg1 EXCEPT !.Snapshot.Signature = Some(sig)]
        s == agg2.Snapshot
        st2 == Update(st, m.SnapshotHash, agg2)
    IN  IF ~caught THEN Done(st, <<>>, {}, "not caught up")
        ELSE IF found = Nil THEN Done(st, <<>>, {}, "no aggregator")
        ELSE IF m.PeerId \in agg.responsed
            THEN Done(st, <<>>, {}, "already responded")
        ELSE IF m.PeerId \notin ConsensusNodes
            THEN Done(st, <<>>, {}, "unknown peer")
        ELSE IF Cardinality(agg.Responses) >= Cardinality(agg.Commitments)
            THEN Done(st, <<>>, {}, "enough")
        ELSE IF TransactionFinalized(st, agg.Snapshot.Transaction)
            THEN Done(st, <<>>, {}, "finalized")
        ELSE IF Cardinality(agg1.Responses) # Cardinality(agg.Commitments)
            THEN Done(Update(st, m.SnapshotHash, agg1), <<>>, {}, "responded")
        ELSE IF agg.Snapshot.Signature = Nil
            THEN Panic(Update(st, m.SnapshotHash, agg1), "nil signature")
        ELSE IF ~CacheVerifyCosi(m.SnapshotHash, sig, base)
            THEN Done(st2, <<>>, {}, "not verified")
        ELSE IF checkInitialAcceptSnapshot(st, s, agg.Transaction)
            THEN Done(finalizeNodeAcceptSnapshot(st2, s), <<>>,
                      Broadcast("Finalization", s), "accept signed")
        ELSE IF st.cache[s.NodeId] = Nil THEN Panic(st2, "nil round")
        ELSE PersistSigned(st2, m, agg2, s)

(***************************************************************************)
(* The participant path.                                                   *)
(***************************************************************************)
Commitment(s, random) ==
    {[type |-> "Commitment", to |-> s.NodeId, hash |-> PayloadHash(s),
      commitment |-> Public(random), wantTx |-> FALSE]}

\* cosiHandleAnnouncement that opens the next round without installing the
\* sealed round as the final round
AnnouncedInRoundKeepFinal(st, m, random) ==
    LET s == m.Snapshot
        cache == st.cache[s.NodeId][1]
        final == st.final[s.NodeId]
        requeue == queueSnapshotOrPanic(m.PeerId, s, FALSE)
        old == ReadRound(st, cache.References.External)
        external == ReadRound(st, s.References.External)
        link == ReadLink(st, cache.NodeId, external[1].NodeId)
        rewritten == NewCacheRound(cache.NodeId, cache.Number, 0,
                        [Self |-> s.References.Self,
                         External |-> s.References.External])
        next == s.RoundNumber = cache.Number + 1
        r == startNewRound(st, s, cache, FALSE)
        final2 == final
        cache2 == IF next
                  THEN NewCacheRound(s.NodeId, s.RoundNumber, s.Timestamp,
                                     s.References)
                  ELSE cache
        st2 == assignNewGraphRound(
                 IF next
                 THEN StartNewRound(st, cache2.NodeId, cache2.Number,
                                    cache2.References, final2[1].Start)
                 ELSE st,
                 final2, cache2)
    IN  IF s.RoundNumber < cache.Number THEN Done(st, <<>>, {}, "old round")
        ELSE IF s.RoundNumber > cache.Number + 1
            THEN Done(st, requeue, {}, "future round")
        ELSE IF s.Timestamp <= final[1].Start + SnapshotRoundGap
            THEN Done(st, <<>>, {}, "too early")
        ELSE IF /\ s.RoundNumber = cache.Number
                /\ ~ReferencesEqual(s.References, cache.References)
            THEN IF Len(cache.Snapshots) > 0
                 THEN Done(st, <<>>, {}, "references differ")
                 ELSE IF s.References.Self # cache.References.Self
                    THEN Done(st, <<>>, {}, "self differs")
                 ELSE IF external = Nil
                    THEN Done(st, <<>>, {}, "external unknown")
                 ELSE IF old = Nil THEN Panic(st, "nil round")
                 ELSE IF old[1].Timestamp + SnapshotReferenceThreshold
                           * SnapshotRoundGap * AnnouncementRefreshFactor
                         > external[1].Timestamp
                    THEN Done(st, <<>>, {}, "external not newer")
                 ELSE IF external[1].Number <= link
                    THEN Done(st, <<>>, {}, "link not advanced")
                 ELSE Done(assignNewGraphRound(
                             UpdateEmptyHeadRound(st, rewritten.NodeId,
                                 rewritten.Number, rewritten.References),
                             final, rewritten),
                           requeue, {}, "references rewritten")
        ELSE IF next /\ r.err THEN Done(st, requeue, {}, "new round error")
        ELSE IF next /\ r.round = Nil THEN Done(st, <<>>, {}, "no new round")
        ELSE IF ~ValidateSnapshot(cache2, s, FALSE)[1]
            THEN Done(st2, <<>>, {}, "invalid")
        ELSE Done([st2 EXCEPT !.ver = (PayloadHash(s) :>
                                        [Snapshot |-> s, random |-> random])
                                      @@ @],
                  <<>>, Commitment(s, random), "commitment sent")

\* cosiHandleAnnouncement that commits to a snapshot without validating it
AnnouncedInRoundUnvalidated(st, m, random) ==
    LET s == m.Snapshot
        cache == st.cache[s.NodeId][1]
        final == st.final[s.NodeId]
        requeue == queueSnapshotOrPanic(m.PeerId, s, FALSE)
        old == ReadRound(st, cache.References.External)
        external == ReadRound(st, s.References.External)
        link == ReadLink(st, cache.NodeId, external[1].NodeId)
        rewritten == NewCacheRound(cache.NodeId, cache.Number, 0,
                        [Self |-> s.References.Self,
                         External |-> s.References.External])
        next == s.RoundNumber = cache.Number + 1
        r == startNewRound(st, s, cache, FALSE)
        final2 == IF next THEN r.round ELSE final
        cache2 == IF next
                  THEN NewCacheRound(s.NodeId, s.RoundNumber, s.Timestamp,
                                     s.References)
                  ELSE cache
        st2 == assignNewGraphRound(
                 IF next
                 THEN StartNewRound(st, cache2.NodeId, cache2.Number,
                                    cache2.References, final2[1].Start)
                 ELSE st,
                 final2, cache2)
    IN  IF s.RoundNumber < cache.Number THEN Done(st, <<>>, {}, "old round")
        ELSE IF s.RoundNumber > cache.Number + 1
            THEN Done(st, requeue, {}, "future round")
        ELSE IF s.Timestamp <= final[1].Start + SnapshotRoundGap
            THEN Done(st, <<>>, {}, "too early")
        ELSE IF /\ s.RoundNumber = cache.Number
                /\ ~ReferencesEqual(s.References, cache.References)
            THEN IF Len(cache.Snapshots) > 0
                 THEN Done(st, <<>>, {}, "references differ")
                 ELSE IF s.References.Self # cache.References.Self
                    THEN Done(st, <<>>, {}, "self differs")
                 ELSE IF external = Nil
                    THEN Done(st, <<>>, {}, "external unknown")
                 ELSE IF old = Nil THEN Panic(st, "nil round")
                 ELSE IF old[1].Timestamp + SnapshotReferenceThreshold
                           * SnapshotRoundGap * AnnouncementRefreshFactor
                         > external[1].Timestamp
                    THEN Done(st, <<>>, {}, "external not newer")
                 ELSE IF external[1].Number <= link
                    THEN Done(st, <<>>, {}, "link not advanced")
                 ELSE Done(assignNewGraphRound(
                             UpdateEmptyHeadRound(st, rewritten.NodeId,
                                 rewritten.Number, rewritten.References),
                             final, rewritten),
                           requeue, {}, "references rewritten")
        ELSE IF next /\ r.err THEN Done(st, requeue, {}, "new round error")
        ELSE IF next /\ r.round = Nil THEN Done(st, <<>>, {}, "no new round")
        ELSE Done([st2 EXCEPT !.ver = (PayloadHash(s) :>
                                        [Snapshot |-> s, random |-> random])
                                      @@ @],
                  <<>>, Commitment(s, random), "commitment sent")

\* cosiHandleAnnouncement that takes a snapshot however early it is
AnnouncedInRoundEarly(st, m, random) ==
    LET s == m.Snapshot
        cache == st.cache[s.NodeId][1]
        final == st.final[s.NodeId]
        requeue == queueSnapshotOrPanic(m.PeerId, s, FALSE)
        old == ReadRound(st, cache.References.External)
        external == ReadRound(st, s.References.External)
        link == ReadLink(st, cache.NodeId, external[1].NodeId)
        rewritten == NewCacheRound(cache.NodeId, cache.Number, 0,
                        [Self |-> s.References.Self,
                         External |-> s.References.External])
        next == s.RoundNumber = cache.Number + 1
        r == startNewRound(st, s, cache, FALSE)
        final2 == IF next THEN r.round ELSE final
        cache2 == IF next
                  THEN NewCacheRound(s.NodeId, s.RoundNumber, s.Timestamp,
                                     s.References)
                  ELSE cache
        st2 == assignNewGraphRound(
                 IF next
                 THEN StartNewRound(st, cache2.NodeId, cache2.Number,
                                    cache2.References, final2[1].Start)
                 ELSE st,
                 final2, cache2)
    IN  IF s.RoundNumber < cache.Number THEN Done(st, <<>>, {}, "old round")
        ELSE IF s.RoundNumber > cache.Number + 1
            THEN Done(st, requeue, {}, "future round")
        ELSE IF /\ s.RoundNumber = cache.Number
                /\ ~ReferencesEqual(s.References, cache.References)
            THEN IF Len(cache.Snapshots) > 0
                 THEN Done(st, <<>>, {}, "references differ")
                 ELSE IF s.References.Self # cache.References.Self
                    THEN Done(st, <<>>, {}, "self differs")
                 ELSE IF external = Nil
                    THEN Done(st, <<>>, {}, "external unknown")
                 ELSE IF old = Nil THEN Panic(st, "nil round")
                 ELSE IF old[1].Timestamp + SnapshotReferenceThreshold
                           * SnapshotRoundGap * AnnouncementRefreshFactor
                         > external[1].Timestamp
                    THEN Done(st, <<>>, {}, "external not newer")
                 ELSE IF external[1].Number <= link
                    THEN Done(st, <<>>, {}, "link not advanced")
                 ELSE Done(assignNewGraphRound(
                             UpdateEmptyHeadRound(st, rewritten.NodeId,
                                 rewritten.Number, rewritten.References),
                             final, rewritten),
                           requeue, {}, "references rewritten")
        ELSE IF next /\ r.err THEN Done(st, requeue, {}, "new round error")
        ELSE IF next /\ r.round = Nil THEN Done(st, <<>>, {}, "no new round")
        ELSE IF ~ValidateSnapshot(cache2, s, FALSE)[1]
            THEN Done(st2, <<>>, {}, "invalid")
        ELSE Done([st2 EXCEPT !.ver = (PayloadHash(s) :>
                                        [Snapshot |-> s, random |-> random])
                                      @@ @],
                  <<>>, Commitment(s, random), "commitment sent")

\* cosiHandleAnnouncement that rewrites the references of a round that holds
\* snapshots
AnnouncedInRoundOverwrite(st, m, random) ==
    LET s == m.Snapshot
        cache == st.cache[s.NodeId][1]
        final == st.final[s.NodeId]
        requeue == queueSnapshotOrPanic(m.PeerId, s, FALSE)
        old == ReadRound(st, cache.References.External)
        external == ReadRound(st, s.References.External)
        link == ReadLink(st, cache.NodeId, external[1].NodeId)
        rewritten == NewCacheRound(cache.NodeId, cache.Number, 0,
                        [Self |-> s.References.Self,
                         External |-> s.References.External])
        next == s.RoundNumber = cache.Number + 1
        r == startNewRound(st, s, cache, FALSE)
        final2 == IF next THEN r.round ELSE final
        cache2 == IF next
                  THEN NewCacheRound(s.NodeId, s.RoundNumber, s.Timestamp,
                                     s.References)
                  ELSE cache
        st2 == assignNewGraphRound(
                 IF next
                 THEN StartNewRound(st, cache2.NodeId, cache2.Number,
                                    cache2.References, final2[1].Start)
                 ELSE st,
                 final2, cache2)
    IN  IF s.RoundNumber < cache.Number THEN Done(st, <<>>, {}, "old round")
        ELSE IF s.RoundNumber > cache.Number + 1
            THEN Done(st, requeue, {}, "future round")
        ELSE IF s.Timestamp <= final[1].Start + SnapshotRoundGap
            THEN Done(st, <<>>, {}, "too early")
        ELSE IF /\ s.RoundNumber = cache.Number
                /\ ~ReferencesEqual(s.References, cache.References)
            THEN IF s.References.Self # cache.References.Self
                    THEN Done(st, <<>>, {}, "self differs")
                 ELSE IF external = Nil
                    THEN Done(st, <<>>, {}, "external unknown")
                 ELSE IF old = Nil THEN Panic(st, "nil round")
                 ELSE IF old[1].Timestamp + SnapshotReferenceThreshold
                           * SnapshotRoundGap * AnnouncementRefreshFactor
                         > external[1].Timestamp
                    THEN Done(st, <<>>, {}, "external not newer")
                 ELSE IF external[1].Number <= link
                    THEN Done(st, <<>>, {}, "link not advanced")
                 ELSE Done(assignNewGraphRound(
                             UpdateEmptyHeadRound(st, rewritten.NodeId,
                                 rewritten.Number, rewritten.References),
                             final, rewritten),
                           requeue, {}, "references rewritten")
        ELSE IF next /\ r.err THEN Done(st, requeue, {}, "new round error")
        ELSE IF next /\ r.round = Nil THEN Done(st, <<>>, {}, "no new round")
        ELSE IF ~ValidateSnapshot(cache2, s, FALSE)[1]
            THEN Done(st2, <<>>, {}, "invalid")
        ELSE Done([st2 EXCEPT !.ver = (PayloadHash(s) :>
                                        [Snapshot |-> s, random |-> random])
                                      @@ @],
                  <<>>, Commitment(s, random), "commitment sent")

\* cosiHandleAnnouncement from the copy of the rounds on (cosi.go 257-337)
AnnouncedInRound(st, m, random) ==
    LET s == m.Snapshot
        cache == st.cache[s.NodeId][1]
        final == st.final[s.NodeId]
        requeue == queueSnapshotOrPanic(m.PeerId, s, FALSE)
        old == ReadRound(st, cache.References.External)
        external == ReadRound(st, s.References.External)
        link == ReadLink(st, cache.NodeId, external[1].NodeId)
        rewritten == NewCacheRound(cache.NodeId, cache.Number, 0,
                        [Self |-> s.References.Self,
                         External |-> s.References.External])
        next == s.RoundNumber = cache.Number + 1
        r == startNewRound(st, s, cache, FALSE)
        final2 == IF next THEN r.round ELSE final
        cache2 == IF next
                  THEN NewCacheRound(s.NodeId, s.RoundNumber, s.Timestamp,
                                     s.References)
                  ELSE cache
        st2 == assignNewGraphRound(
                 IF next
                 THEN StartNewRound(st, cache2.NodeId, cache2.Number,
                                    cache2.References, final2[1].Start)
                 ELSE st,
                 final2, cache2)
    IN  IF s.RoundNumber < cache.Number THEN Done(st, <<>>, {}, "old round")
        ELSE IF s.RoundNumber > cache.Number + 1
            THEN Done(st, requeue, {}, "future round")
        ELSE IF s.Timestamp <= final[1].Start + SnapshotRoundGap
            THEN Done(st, <<>>, {}, "too early")
        ELSE IF /\ s.RoundNumber = cache.Number
                /\ ~ReferencesEqual(s.References, cache.References)
            THEN IF Len(cache.Snapshots) > 0
                 THEN Done(st, <<>>, {}, "references differ")
                 ELSE IF s.References.Self # cache.References.Self
                    THEN Done(st, <<>>, {}, "self differs")
                 ELSE IF external = Nil
                    THEN Done(st, <<>>, {}, "external unknown")
                 ELSE IF old = Nil THEN Panic(st, "nil round")
                 ELSE IF old[1].Timestamp + SnapshotReferenceThreshold
                           * SnapshotRoundGap * AnnouncementRefreshFactor
                         > external[1].Timestamp
                    THEN Done(st, <<>>, {}, "external not newer")
                 ELSE IF external[1].Number <= link
                    THEN Done(st, <<>>, {}, "link not advanced")
                 ELSE Done(assignNewGraphRound(
                             UpdateEmptyHeadRound(st, rewritten.NodeId,
                                 rewritten.Number, rewritten.References),
                             final, rewritten),
                           requeue, {}, "references rewritten")
        ELSE IF next /\ r.err THEN Done(st, requeue, {}, "new round error")
        ELSE IF next /\ r.round = Nil THEN Done(st, <<>>, {}, "no new round")
        ELSE IF ~ValidateSnapshot(cache2, s, FALSE)[1]
            THEN Done(st2, <<>>, {}, "invalid")
        ELSE Done([st2 EXCEPT !.ver = (PayloadHash(s) :>
                                        [Snapshot |-> s, random |-> random])
                                      @@ @],
                  <<>>, Commitment(s, random), "commitment sent")

\* node.cosiHandleAnnouncement
cosiHandleAnnouncement(st, m, caught, random, clock) ==
    LET s == m.Snapshot
        threshold == SnapshotRoundGap * SnapshotReferenceThreshold
    IN  IF ~caught THEN Done(st, <<>>, {}, "not caught up")
        ELSE IF \/ s.NodeId = Self \/ s.Signature # Nil
                \/ s.Version # SnapshotVersion \/ s.Timestamp = 0
            THEN Panic(st, "should never be here")
        ELSE IF s.Timestamp > clock + threshold
            THEN Done(st, <<>>, {}, "future")
        ELSE IF s.Timestamp + threshold * 2 < st.gts
            THEN Done(st, <<>>, {}, "expired")
        ELSE IF TransactionFinalized(st, s.Transaction)
            THEN Done(st, <<>>, {}, "finalized")
        ELSE IF checkInitialAcceptSnapshot(st, s, s.Transaction)
            THEN Done([st EXCEPT !.ver = (PayloadHash(s) :>
                                           [Snapshot |-> s, random |-> random])
                                         @@ @],
                      <<>>, Commitment(s, random), "accept commitment sent")
        ELSE IF st.cache[s.NodeId] = Nil \/ st.final[s.NodeId] = Nil
            THEN Panic(st, "nil round")
        ELSE AnnouncedInRound(st, m, random)

\* cosiHandleChallenge that keeps the transaction before it looks for the verifier
cosiHandleChallengeCacheFirst(st0, m, caught) ==
    LET v == st0.ver[m.SnapshotHash]
        s == v.Snapshot
        st == IF m.Transaction = Nil THEN st0
              ELSE [st0 EXCEPT !.cached = @ \cup {<<m.PeerId, m.Transaction[1]>>}]
    IN  IF ~caught THEN Done(st0, <<>>, {}, "not caught up")
        ELSE IF m.SnapshotHash \notin DOMAIN st0.ver
            THEN Done(st, <<>>, {}, "no verifier")
        ELSE IF TransactionFinalized(st, s.Transaction)
            THEN Done(st, <<>>, {}, "finalized")
        ELSE IF ~validateKernelSnapshot(st, s, s.Transaction)
            THEN Done(st, <<>>, {}, "kernel invalid")
        ELSE Done(st, <<>>,
                  {[type |-> "Response", to |-> m.PeerId,
                    hash |-> m.SnapshotHash,
                    response |-> Response(IndexOf(Self), v.random,
                                          m.Signature.R, m.SnapshotHash)]},
                  "response sent")

\* node.cosiHandleChallenge
cosiHandleChallenge(st0, m, caught) ==
    LET v == st0.ver[m.SnapshotHash]
        s == v.Snapshot
        st == IF m.Transaction = Nil THEN st0
              ELSE [st0 EXCEPT !.cached = @ \cup {<<m.PeerId, m.Transaction[1]>>}]
    IN  IF ~caught THEN Done(st0, <<>>, {}, "not caught up")
        ELSE IF m.SnapshotHash \notin DOMAIN st0.ver
            THEN Done(st0, <<>>, {}, "no verifier")
        ELSE IF TransactionFinalized(st, s.Transaction)
            THEN Done(st, <<>>, {}, "finalized")
        ELSE IF ~validateKernelSnapshot(st, s, s.Transaction)
            THEN Done(st, <<>>, {}, "kernel invalid")
        ELSE Done(st, <<>>,
                  {[type |-> "Response", to |-> m.PeerId,
                    hash |-> m.SnapshotHash,
                    response |-> Response(IndexOf(Self), v.random,
                                          m.Signature.R, m.SnapshotHash)]},
                  "response sent")

(***************************************************************************)
(* The initial state: a node loaded with the genesis graph, in which every *)
(* chain has its final round 0 (one genesis snapshot) and an open round 1. *)
(***************************************************************************)
GenesisTime == 1
InitialClock == 80

GenesisSnapshot(n) ==
    [Version |-> SnapshotVersion, NodeId |-> n, RoundNumber |-> 0,
     References |-> NoReferences, Transaction |-> "genesis",
     Timestamp |-> GenesisTime, Signature |-> Nil]

GenesisFinal(n) ==
    asFinal([NewCacheRound(n, 0, GenesisTime, NoReferences)
                EXCEPT !.Snapshots = <<GenesisSnapshot(n)>>])[1]

GenesisExternal(n) ==
    LET i == IndexOf(n)
    IN  SortedConsensusNodes[(i % Len(SortedConsensusNodes)) + 1]

GenesisCache(n) ==
    NewCacheRound(n, 1, 0, [Self |-> GenesisFinal(n).Hash,
                            External |-> GenesisFinal(GenesisExternal(n)).Hash])

GenesisState ==
    [cache |-> [n \in Chains |-> Some(GenesisCache(n))],
     final |-> [n \in Chains |-> Some(GenesisFinal(n))],
     gts |-> GenesisTime,
     rounds |-> {[Hash |-> GenesisFinal(n).Hash, NodeId |-> n, Number |-> 0,
                  Timestamp |-> GenesisTime] : n \in Chains},
     links |-> [p \in Chains \X Chains |-> 0],
     heads |-> [n \in Chains |-> [Number |-> 1,
                                  References |-> GenesisCache(n).References]],
     snaps |-> [i \in 1..Len(SortedConsensusNodes) |->
                  [Snapshot |-> GenesisSnapshot(SortedConsensusNodes[i]),
                   TopologicalOrder |-> i - 1]],
     topo |-> Len(SortedConsensusNodes),
     keys |-> <<>>,
     aggs |-> <<>>,
     ver |-> <<>>,
     cached |-> {}]

\* Graph.UpdateFinalCache: the summary of the final rounds given to peers
UpdateFinalCache(st) ==
    [n \in Chains |->
        IF st.final[n] = Nil THEN Nil
        ELSE Some([NodeId |-> n, Number |-> st.final[n][1].Number,
                   Hash |-> st.final[n][1].Hash])]

St ==
    [cache |-> CacheRound, final |-> FinalRound, gts |-> GraphTimestamp,
     rounds |-> rounds, links |-> links, heads |-> heads,
     snaps |-> snapshots, topo |-> topo, keys |-> aggKeys, aggs |-> aggs,
     ver |-> CosiVerifiers, cached |-> CachedTransactions]

SetSt(st) ==
    /\ CacheRound' = st.cache
    /\ FinalRound' = st.final
    /\ GraphTimestamp' = st.gts
    /\ rounds' = st.rounds
    /\ links' = st.links
    /\ heads' = st.heads
    /\ snapshots' = st.snaps
    /\ topo' = st.topo
    /\ aggKeys' = st.keys
    /\ aggs' = st.aggs
    /\ CosiVerifiers' = st.ver
    /\ CachedTransactions' = st.cached

NoHandler == [exit |-> "", action |-> -1]

\* syncToNeighborLoop before its first iteration (part_000 76-77), with the
\* topological orders of the stored snapshots that carry legacy signatures:
\* offset and filter are the variables of the loop, compared and returned
\* the last results of the two functions it calls, out the snapshots the
\* last iteration sent, in the order it sent them, and sends the times at
\* which each snapshot hash was sent.
NoNeighbor(legacy) ==
    [offset |-> 0, filter |-> <<>>, legacy |-> legacy, graph |-> <<>>,
     compared |-> 0, since |-> 0, returned |-> 0, out |-> <<>>, bad |-> -1,
     sends |-> <<>>]

InitWith(st, nb) ==
    /\ neighbor = nb
    /\ now = InitialClock
    /\ cosiActionsChan = <<>>
    /\ inflight = <<>>
    /\ loop = "run"
    /\ CacheRound = st.cache
    /\ FinalRound = st.final
    /\ GraphTimestamp = st.gts
    /\ rounds = st.rounds
    /\ links = st.links
    /\ heads = st.heads
    /\ snapshots = st.snaps
    /\ topo = st.topo
    /\ aggKeys = st.keys
    /\ aggs = st.aggs
    /\ CosiVerifiers = st.ver
    /\ CachedTransactions = st.cached
    /\ FinalCache = UpdateFinalCache(st)
    /\ sent = {}
    /\ inputs = 0
    /\ last = NoHandler

InitFrom(st) == InitWith(st, NoNeighbor({}))

\* The graph the node starts with: chain C has already closed its round 1
\* and chain B has a snapshot in its round 1.  It is what the finalization
\* acceptor makes of the genesis graph when it is given C's snapshot of round
\* 1, then C's first snapshot of round 2, whose external round the node does
\* not know (handled twice: the references of the new round are rewritten
\* first, the snapshot goes in next), then B's snapshot of round 1 and the
\* node's own snapshot of round 1.
UnknownHash == <<"r", "E", 1, <<>>>>

Signed(s, M) == [s EXCEPT !.Signature = Some(SignedBy(M, PayloadHash(s)))]

EarlierSnapshot(n, number, refs, tx, ts) ==
    Signed([Version |-> SnapshotVersion, NodeId |-> n, RoundNumber |-> number,
            References |-> refs, Transaction |-> tx, Timestamp |-> ts,
            Signature |-> Nil], {2, 3, 4})

Earlier1 == EarlierSnapshot("C", 1, GenesisCache("C").References, "c1", 5)

Finalized(st, s) ==
    handleFinalization(st, QueuedAction(s.NodeId, s, TRUE)).st

Earlier2 ==
    EarlierSnapshot("C", 2,
        [Self |-> asFinal(Finalized(GenesisState, Earlier1).cache["C"][1])[1].Hash,
         External |-> UnknownHash], "c2", 8)

Earlier3 == EarlierSnapshot("B", 1, GenesisCache("B").References, "b1", 78)

Earlier4 == EarlierSnapshot(Self, 1, GenesisCache(Self).References, "a1", 79)

AcceptedState ==
    Finalized(Finalized(Finalized(Finalized(Finalized(GenesisState, Earlier1),
                                            Earlier2), Earlier2), Earlier3),
              Earlier4)

\* The same graph on a node whose own chain is not accepted yet (pledging).
PledgingState ==
    [AcceptedState EXCEPT
        !.cache = [@ EXCEPT ![Self] = Nil],
        !.final = [@ EXCEPT ![Self] = Nil],
        !.rounds = {r \in @ : r.NodeId # Self}]

\* A graph in which the node's own chain is in round 2, opened on the final
\* round of C, with one snapshot old enough for the next round to be due: no
\* other chain has a final round the node's chain has not linked to yet.
Own1 == EarlierSnapshot(Self, 1, GenesisCache(Self).References, "a1", 76)

Own2 ==
    EarlierSnapshot(Self, 2,
        [Self |-> asFinal(Finalized(GenesisState, Own1).cache[Self][1])[1].Hash,
         External |->
            asFinal(Finalized(GenesisState, Earlier1).cache["C"][1])[1].Hash],
        "a2", 78)

LinkedState ==
    Finalized(Finalized(Finalized(Finalized(Finalized(Finalized(GenesisState,
        Earlier1), Earlier2), Earlier2), Earlier3), Own1), Own2)

Init == InitFrom(AcceptedState)

InitLinked == InitFrom(LinkedState)

InitPledging == InitFrom(PledgingState)

(***************************************************************************)
(* The action loop.                                                        *)
(***************************************************************************)
\* a loop that takes the action queued last
ReceiveLast ==
    /\ loop = "run"
    /\ inflight = <<>>
    /\ cosiActionsChan # <<>>
    /\ inflight' = <<cosiActionsChan[Len(cosiActionsChan)]>>
    /\ cosiActionsChan' = SubSeq(cosiActionsChan, 1, Len(cosiActionsChan) - 1)
    /\ sent' = {}
    /\ last' = NoHandler
    /\ UNCHANGED <<now, loop, CacheRound, FinalRound, GraphTimestamp, rounds,
                   links, snapshots, topo, aggKeys, aggs, CosiVerifiers, heads,
                   CachedTransactions,
                   FinalCache, inputs,
                   neighbor>>

\* CosiLoop: m := <-node.cosiActionsChan
Receive ==
    /\ loop = "run"
    /\ inflight = <<>>
    /\ cosiActionsChan # <<>>
    /\ inflight' = <<Head(cosiActionsChan)>>
    /\ cosiActionsChan' = Tail(cosiActionsChan)
    /\ sent' = {}
    /\ last' = NoHandler
    /\ UNCHANGED <<now, loop, CacheRound, FinalRound, GraphTimestamp, rounds,
                   links, snapshots, topo, aggKeys, aggs, CosiVerifiers, heads,
                   CachedTransactions,
                   FinalCache, inputs,
                   neighbor>>

\* cosiHandleAction: the handler's result is applied, then the deferred
\* Graph.UpdateFinalCache runs.
Return(m, result) ==
    \E r \in {result} : \E st \in {r.st} :
        /\ SetSt(st)
        /\ FinalCache' = UpdateFinalCache(st)
        /\ cosiActionsChan' = cosiActionsChan \o r.q
        /\ sent' = r.out
        /\ loop' = r.loop
        /\ inflight' = <<>>
        /\ now' = IF "clock" \in DOMAIN r THEN r.clock ELSE now
        /\ last' = [exit |-> r.exit, action |-> m.Action]
        /\ UNCHANGED <<inputs, neighbor>>

Handling(action) ==
    /\ loop = "run"
    /\ inflight # <<>>
    /\ inflight[1].Action = action

HandleFinalization ==
    /\ Handling(CosiActionFinalization)
    /\ Return(inflight[1], handleFinalization(St, inflight[1]))

HandleSelfEmpty ==
    /\ Handling(CosiActionSelfEmpty)
    /\ \E caught \in BOOLEAN : \E broadcasted \in BOOLEAN :
        Return(inflight[1],
               cosiSendAnnouncement(St, inflight[1], caught, broadcasted, now))

HandleSelfCommitment ==
    /\ Handling(CosiActionSelfCommitment)
    /\ \E caught \in BOOLEAN :
        Return(inflight[1], cosiHandleCommitment(St, inflight[1], caught))

HandleSelfResponse ==
    /\ Handling(CosiActionSelfResponse)
    /\ \E caught \in BOOLEAN :
        Return(inflight[1], cosiHandleResponse(St, inflight[1], caught))

HandleExternalAnnouncement ==
    /\ Handling(CosiActionExternalAnnouncement)
    /\ \E caught \in BOOLEAN : \E random \in {1} :
        Return(inflight[1],
               cosiHandleAnnouncement(St, inflight[1], caught, random, now))

HandleExternalChallenge ==
    /\ Handling(CosiActionExternalChallenge)
    /\ \E caught \in BOOLEAN :
        Return(inflight[1], cosiHandleChallenge(St, inflight[1], caught))

\* The clock advances.
Tick ==
    /\ loop = "run"
    /\ inflight = <<>>
    /\ now < InitialClock + MaxClock
    /\ now' = now + 1
    /\ sent' = {}
    /\ last' = NoHandler
    /\ UNCHANGED <<cosiActionsChan, inflight, loop, CacheRound, FinalRound,
                   GraphTimestamp, rounds, links, snapshots, topo, aggKeys,
                   aggs, CosiVerifiers, heads,
                   CachedTransactions, FinalCache, inputs,
                   neighbor>>

(***************************************************************************)
(* The entry points the peer threads call.                                 *)
(***************************************************************************)
CanInput ==
    /\ loop = "run"
    /\ Len(cosiActionsChan) + Len(inflight) < MaxQueue

\* A message of the signing exchange arrives while the loop is idle.
CanSend ==
    /\ loop = "run"
    /\ cosiActionsChan = <<>>
    /\ inflight = <<>>

\* The entry point returns without queueing anything.
Ignore(out) ==
    /\ sent' = out
    /\ last' = NoHandler
    /\ UNCHANGED <<now, cosiActionsChan, inflight, loop, CacheRound,
                   FinalRound, GraphTimestamp, rounds, links, snapshots, topo,
                   aggKeys, aggs, CosiVerifiers, heads,
                   CachedTransactions, FinalCache, inputs,
                   neighbor>>

\* An action that carries a snapshot is queued.
Enqueue(q, out) ==
    /\ inputs < MaxInputs
    /\ cosiActionsChan' = cosiActionsChan \o q
    /\ sent' = out
    /\ last' = NoHandler
    /\ inputs' = inputs + 1
    /\ UNCHANGED <<now, inflight, loop, CacheRound, FinalRound,
                   GraphTimestamp, rounds, links, snapshots, topo, aggKeys,
                   aggs, CosiVerifiers, heads,
                   CachedTransactions, FinalCache, neighbor>>

\* node.cosiActionsChan <- m, for a message of the signing exchange
Send(m) ==
    /\ cosiActionsChan' = Append(cosiActionsChan, m)
    /\ sent' = {}
    /\ last' = NoHandler
    /\ UNCHANGED <<now, inflight, loop, CacheRound, FinalRound,
                   GraphTimestamp, rounds, links, snapshots, topo, aggKeys,
                   aggs, CosiVerifiers, heads,
                   CachedTransactions, FinalCache, inputs,
                   neighbor>>

\* The process dies of a nil dereference in a peer thread.
Crash ==
    /\ loop' = "panic"
    /\ sent' = {}
    /\ last' = NoHandler
    /\ UNCHANGED <<now, cosiActionsChan, inflight, CacheRound, FinalRound,
                   GraphTimestamp, rounds, links, snapshots, topo, aggKeys,
                   aggs, CosiVerifiers, heads,
                   CachedTransactions, FinalCache, inputs,
                   neighbor>>

\* The snapshots a peer may send for chain n, relative to the open round of
\* the chain: one that fits it, ones whose references differ (another known
\* round, a round of the chain itself, an unknown self reference), ones for
\* the next round (sealing the open round or not, with a known or an unknown
\* external round) and ones for a round too old or too far ahead.
OtherFinals(n) ==
    {FinalRound[k][1].Hash :
        k \in {c \in {Self, "C"} \ {n} : FinalRound[c] # Nil}}

PeerSnapshot(n, rn, sf, ex, tx) ==
    [Version |-> SnapshotVersion, NodeId |-> n, RoundNumber |-> rn,
     References |-> [Self |-> sf, External |-> ex],
     Transaction |-> tx, Timestamp |-> now, Signature |-> Nil]

PeerSnapshots(n) ==
    LET cache == CacheRound[n][1]
        refs == cache.References
        sealed == IF asFinal(cache) = Nil THEN BadHash
                  ELSE asFinal(cache)[1].Hash
        own == FinalRound[n][1].Hash
    IN  {PeerSnapshot(n, cache.Number, refs.Self, refs.External, tx) :
            tx \in Transactions}
        \cup {PeerSnapshot(n, cache.Number, refs.Self, ex, "t1") :
                ex \in OtherFinals(n) \cup {own}}
        \cup {PeerSnapshot(n, cache.Number, BadHash, refs.External, "t1")}
        \cup {PeerSnapshot(n, cache.Number + 1, sealed, ex, "t2") :
                ex \in OtherFinals(n) \cup {BadHash}}
        \cup {PeerSnapshot(n, cache.Number + 1, refs.Self, refs.External, "t2")}
        \cup {PeerSnapshot(n, cache.Number + 2, sealed, refs.External, "t2")}
        \cup {PeerSnapshot(n, cache.Number - 1, refs.Self, refs.External, "t2")}

\* VerifyAndQueueAppendSnapshotFinalization without the look-up of the
\* transaction in the chain
VerifyAndQueueAppendSnapshotFinalizationAgain(peerId, s) ==
    /\ CanInput
    /\ IF peerId \notin ConsensusNodes THEN Ignore({})
       ELSE IF s.Version # SnapshotVersion \/ s.Signature = Nil
            THEN Ignore({})
       ELSE IF ~VerifyCosi(s) THEN Ignore({})
       ELSE Enqueue(queueSnapshotOrPanic(peerId, s, TRUE),
                    {[type |-> "Confirm", to |-> peerId,
                      hash |-> PayloadHash(s)]})

\* node.VerifyAndQueueAppendSnapshotFinalization
VerifyAndQueueAppendSnapshotFinalization(peerId, s) ==
    /\ CanInput
    /\ IF peerId \notin ConsensusNodes THEN Ignore({})
       ELSE IF s.Version # SnapshotVersion \/ s.Signature = Nil
            THEN Ignore({})
       ELSE IF ~VerifyCosi(s) THEN Ignore({})
       ELSE IF CheckTransactionInNode(St, s.NodeId, s.Transaction)
            THEN Ignore({[type |-> "Confirm", to |-> peerId,
                          hash |-> PayloadHash(s)]})
       ELSE Enqueue(queueSnapshotOrPanic(peerId, s, TRUE),
                    {[type |-> "Confirm", to |-> peerId,
                      hash |-> PayloadHash(s)]})

\* CosiQueueExternalAnnouncement without the look at the signature and the
\* timestamp
CosiQueueExternalAnnouncementUnstamped(peerId, s) ==
    /\ CanInput
    /\ IF s.NodeId \notin ConsensusNodes THEN Ignore({})
       ELSE IF s.Version # SnapshotVersion THEN Ignore({})
       ELSE IF s.NodeId = Self \/ s.NodeId # peerId THEN Ignore({})
       ELSE Enqueue(queueSnapshotOrPanic(peerId, s, FALSE), {})

\* node.CosiQueueExternalAnnouncement
CosiQueueExternalAnnouncement(peerId, s) ==
    /\ CanInput
    /\ IF s.NodeId \notin ConsensusNodes THEN Ignore({})
       ELSE IF s.Version # SnapshotVersion THEN Ignore({})
       ELSE IF s.NodeId = Self \/ s.NodeId # peerId THEN Ignore({})
       ELSE IF s.Signature # Nil \/ s.Timestamp = 0 THEN Ignore({})
       ELSE Enqueue(queueSnapshotOrPanic(peerId, s, FALSE), {})

\* node.CosiAggregateSelfCommitments
CosiAggregateSelfCommitments(peerId, snap, commitment, wantTx) ==
    /\ CanSend
    /\ IF peerId \notin ConsensusNodes THEN Ignore({})
       ELSE Send([Action |-> CosiActionSelfCommitment, PeerId |-> peerId,
                  SnapshotHash |-> snap, Commitment |-> commitment,
                  WantTx |-> wantTx])

\* node.CosiQueueExternalChallenge
CosiQueueExternalChallenge(peerId, snap, cosi, ver) ==
    /\ CanSend
    /\ IF peerId \notin ConsensusNodes THEN Ignore({})
       ELSE Send([Action |-> CosiActionExternalChallenge, PeerId |-> peerId,
                  SnapshotHash |-> snap, Signature |-> cosi,
                  Transaction |-> ver])

\* CosiAggregateSelfResponses without the verification of the response
CosiAggregateSelfResponsesUnverified(peerId, snap, response) ==
    LET agg == Get(St, snap)
        s == agg[1].Snapshot
    IN  /\ CanSend
        /\ IF peerId \notin ConsensusNodes THEN Ignore({})
           ELSE IF agg = Nil THEN Ignore({})
           ELSE IF TransactionFinalized(St, s.Transaction) THEN Ignore({})
           ELSE IF s.Signature = Nil THEN Crash
           ELSE Send([Action |-> CosiActionSelfResponse, PeerId |-> peerId,
                      SnapshotHash |-> snap, Response |-> response])

\* node.CosiAggregateSelfResponses
CosiAggregateSelfResponses(peerId, snap, response) ==
    LET agg == Get(St, snap)
        s == agg[1].Snapshot
    IN  /\ CanSend
        /\ IF peerId \notin ConsensusNodes THEN Ignore({})
           ELSE IF agg = Nil THEN Ignore({})
           ELSE IF TransactionFinalized(St, s.Transaction) THEN Ignore({})
           ELSE IF s.Signature = Nil THEN Crash
           ELSE IF ~VerifyResponse(s.Signature[1], IndexOf(peerId), response,
                                   snap)
                THEN Ignore({})
           ELSE Send([Action |-> CosiActionSelfResponse, PeerId |-> peerId,
                      SnapshotHash |-> snap, Response |-> response])

(***************************************************************************)
(* The environment: the mempool and the peers.                             *)
(***************************************************************************)
Peers == ConsensusNodes \ {Self}

\* The mempool hands a transaction to the node, which queues a blank snapshot
\* of its own chain for it.
SelfSnapshot ==
    /\ CanInput
    /\ \E tx \in IF FinalRound[Self] = Nil THEN AcceptTransactions
                 ELSE Transactions :
        Enqueue(queueSnapshotOrPanic(Self, NewSnapshot(Self, tx), FALSE), {})

\* Finalizations the entry point has to turn away whatever the graph, as
\* <<sender, snapshot>>: from outside the committee, without a signature, of
\* a version that is neither the current nor the legacy one.
RejectedFinalizations ==
    LET cache == CacheRound["B"][1]
        s == PeerSnapshot("B", cache.Number, cache.References.Self,
                          cache.References.External, "t1")
    IN  {<<"E", Signed(s, {2, 3, 4})>>,
         <<"B", s>>,
         <<"B", Signed([s EXCEPT !.Version = SnapshotVersion + 1], {2, 3, 4})>>}

\* A finalized snapshot of the node's own chain that a peer sends back to
\* it: of the open round, on the final round of C.
OwnFinalized ==
    PeerSnapshot(Self, CacheRound[Self][1].Number,
                 CacheRound[Self][1].References.Self,
                 FinalRound["C"][1].Hash, "t1")

PeerFinalization ==
    \/ \E s \in PeerSnapshots("B") :
            VerifyAndQueueAppendSnapshotFinalization("B", Signed(s, {2, 3, 4}))
    \/ VerifyAndQueueAppendSnapshotFinalization("B",
            Signed(OwnFinalized, {2, 3, 4}))
    \/ \E s \in {x \in PeerSnapshots("B") : x.Transaction = "t1"} :
            VerifyAndQueueAppendSnapshotFinalization("B", Signed(s, {2, 3}))
    \/ \E p \in RejectedFinalizations :
            VerifyAndQueueAppendSnapshotFinalization(p[1], p[2])

\* The finalized snapshots of a chain that fit its open round or seal it; a
\* pledging node is also sent the finalized accept snapshot of its chain.
FittingSnapshots(n) ==
    LET cache == CacheRound[n][1]
        refs == cache.References
    IN  {PeerSnapshot(n, cache.Number, refs.Self, refs.External, tx) :
            tx \in Transactions}
        \cup {PeerSnapshot(n, cache.Number + 1, asFinal(cache)[1].Hash, ex,
                           "t2") : ex \in IF asFinal(cache) = Nil THEN {}
                                          ELSE {FinalRound["C"][1].Hash}}

PeerFinalized ==
    \/ \E s \in FittingSnapshots("B") :
            VerifyAndQueueAppendSnapshotFinalization("B", Signed(s, {2, 3, 4}))
    \/ \E s \in {x \in FittingSnapshots("B") : x.Transaction = "t1"} :
            VerifyAndQueueAppendSnapshotFinalization("B", Signed(s, {2, 3}))
    \/ /\ FinalRound[Self] = Nil
       /\ \E tx \in AcceptTransactions :
            VerifyAndQueueAppendSnapshotFinalization("B",
                Signed([NewSnapshot(Self, tx) EXCEPT !.Timestamp = now],
                       {2, 3, 4}))

\* Announcements the entry point has to turn away, as <<sender, snapshot>>:
\* sent by another node than the snapshot's, of a node outside the committee,
\* of this node, of another version, without a timestamp, already signed.
RejectedAnnouncements ==
    LET cache == CacheRound["B"][1]
        s == PeerSnapshot("B", cache.Number, cache.References.Self,
                          cache.References.External, "t1")
    IN  {<<"C", s>>,
         <<"B", [s EXCEPT !.NodeId = "E"]>>,
         <<"E", [s EXCEPT !.NodeId = "E"]>>,
         <<"B", [s EXCEPT !.NodeId = Self]>>,
         <<Self, [s EXCEPT !.NodeId = Self]>>,
         <<"B", [s EXCEPT !.Version = 0]>>,
         <<"B", [s EXCEPT !.Timestamp = 0]>>,
         <<"B", Signed(s, {2, 3, 4})>>}

PeerAnnouncement ==
    \/ \E s \in PeerSnapshots("B") : CosiQueueExternalAnnouncement("B", s)
    \/ \E p \in RejectedAnnouncements :
            CosiQueueExternalAnnouncement(p[1], p[2])

\* The snapshot hashes under which the registry holds an aggregator.
AnnouncedHashes == {k \in DOMAIN aggKeys : k[1] = "s"}

PeerCommitment ==
    \E peerId \in Peers : \E snap \in AnnouncedHashes :
        CosiAggregateSelfCommitments(peerId, snap, Public(1), peerId = "B")

PeerResponse ==
    \E peerId \in Peers : \E snap \in AnnouncedHashes :
        \E r \in Nonces :
            CosiAggregateSelfResponses(peerId, snap,
                Response(IndexOf(peerId), r,
                         IF aggs[aggKeys[snap]].Snapshot.Signature = Nil
                         THEN {} ELSE aggs[aggKeys[snap]].Snapshot.Signature[1].R,
                         snap))

PeerChallenge ==
    \E snap \in (DOMAIN CosiVerifiers) \cup {BadHash} :
    \E ver \in {Nil, Some("t1")} :
        CosiQueueExternalChallenge("B", snap,
            CosiAggregateCommitment({<<i, Public(1)>> : i \in {1, 2, 3}}),
            ver)

(***************************************************************************)
(* The specifications.                                                     *)
(***************************************************************************)
\* The round graph: the node announces snapshots of its own chain, and the
\* snapshots of a peer's chain are announced to it and arrive finalized.
Next ==
    \/ Receive
    \/ HandleSelfEmpty
    \/ HandleExternalAnnouncement
    \/ HandleExternalChallenge
    \/ HandleFinalization
    \/ Tick
    \/ SelfSnapshot
    \/ PeerAnnouncement
    \/ PeerChallenge
    \/ PeerFinalization

Spec == Init /\ [][Next]_vars

\* The writers of snapshots: the node as the proposer of its own chain's
\* snapshots, on an accepted or a pledging node, and as the acceptor of a
\* peer's finalized snapshots.
NextProposer ==
    \/ Receive
    \/ HandleSelfEmpty
    \/ HandleSelfCommitment
    \/ HandleSelfResponse
    \/ HandleFinalization
    \/ Tick
    \/ SelfSnapshot
    \/ PeerCommitment
    \/ PeerResponse
    \/ PeerFinalized

SpecProposer == (Init \/ InitPledging) /\ [][NextProposer]_vars

(***************************************************************************)
(* The handlers of the signing exchange under every action of a bounded    *)
(* set, whether or not an entry point would queue it now: a commitment of  *)
(* a member, of the node itself or of a node that left the committee after *)
(* its commitment was queued; a response made with the committed nonce or  *)
(* with another one.                                                       *)
(***************************************************************************)
\* D is the peer that draws a fresh nonce for every message it sends.
NoncesOf(peerId) == IF peerId = "D" THEN Nonces ELSE {1}

AnyCommitment ==
    /\ CanSend
    /\ \E peerId \in ConsensusNodes \cup {"E"} :
       \E snap \in AnnouncedHashes \cup {BadHash} : \E r \in NoncesOf(peerId) :
            Send([Action |-> CosiActionSelfCommitment, PeerId |-> peerId,
                  SnapshotHash |-> snap, Commitment |-> Public(r),
                  WantTx |-> (peerId = "B")])

AnyResponse ==
    /\ CanSend
    /\ \E peerId \in ConsensusNodes : \E snap \in AnnouncedHashes :
       \E r \in NoncesOf(peerId) :
            Send([Action |-> CosiActionSelfResponse, PeerId |-> peerId,
                  SnapshotHash |-> snap,
                  Response |->
                    Response(IndexOf(peerId), r,
                        IF aggs[aggKeys[snap]].Snapshot.Signature = Nil
                        THEN {}
                        ELSE aggs[aggKeys[snap]].Snapshot.Signature[1].R,
                        snap)])

\* The mempool hands the node one transaction.
OneSnapshot ==
    /\ CanInput
    /\ inputs = 0
    /\ Enqueue(queueSnapshotOrPanic(Self, NewSnapshot(Self, "t1"), FALSE), {})

NextSigning ==
    \/ Receive
    \/ HandleSelfEmpty
    \/ HandleSelfCommitment
    \/ HandleSelfResponse
    \/ OneSnapshot
    \/ AnyCommitment
    \/ AnyResponse

SpecSigning == Init /\ [][NextSigning]_vars

(***************************************************************************)
(* The proposer alone, under fair scheduling: CosiLoop takes every queued  *)
(* action, the clock advances, and the node is caught up and has broadcast *)
(* to its peers at some handling of every action that stays queued.        *)
(***************************************************************************)
\* cosiSendAnnouncement on a node that is caught up and has broadcast
AnnounceReady ==
    /\ Handling(CosiActionSelfEmpty)
    /\ Return(inflight[1],
              cosiSendAnnouncement(St, inflight[1], TRUE, TRUE, now))

NextAnnouncing ==
    \/ Receive
    \/ HandleSelfEmpty
    \/ Tick
    \/ SelfSnapshot

SpecAnnouncing ==
    /\ (Init \/ InitLinked)
    /\ [][NextAnnouncing]_vars
    /\ WF_vars(Receive)
    /\ WF_vars(Tick)
    /\ SF_vars(AnnounceReady)

(***************************************************************************)
(* The node as the acceptor of finalized snapshots alone: the peers send   *)
(* it signed snapshots, and CosiLoop hands them to handleFinalization.     *)
(***************************************************************************)
NextAccepting ==
    \/ Receive
    \/ HandleFinalization
    \/ Tick
    \/ PeerFinalization

SpecAccepting == Init /\ [][NextAccepting]_vars

(***************************************************************************)
(* The acceptor on an accepted and on a pledging node: a pledging node is   *)
(* sent finalized snapshots of its own chain, the accept snapshot of round  *)
(* 0 and a snapshot of round 1 that reaches it before the accept snapshot.  *)
(***************************************************************************)
PeerFinalizedEarly ==
    \/ \E tx \in AcceptTransactions :
            VerifyAndQueueAppendSnapshotFinalization("B",
                Signed([NewSnapshot(Self, tx) EXCEPT !.Timestamp = now],
                       {2, 3, 4}))
    \/ VerifyAndQueueAppendSnapshotFinalization("B",
            Signed(PeerSnapshot(Self, 1, GenesisFinal(Self).Hash,
                                GenesisFinal("B").Hash, "t1"), {2, 3, 4}))

NextStarting ==
    \/ Receive
    \/ HandleFinalization
    \/ Tick
    \/ FinalRound[Self] # Nil /\ PeerFinalization
    \/ FinalRound[Self] = Nil /\ PeerFinalizedEarly

SpecStarting == (Init \/ InitPledging) /\ [][NextStarting]_vars

(***************************************************************************)
(* The proposer on a store whose reads may fail: the read of the external  *)
(* round in cosiSendAnnouncement returns an error, the handler returns it  *)
(* and CosiLoop returns it in turn.                                        *)
(***************************************************************************)
\* a handler returns an error: cosiHandleAction passes it on to CosiLoop,
\* which returns
Failed(st, exit) ==
    [st |-> st, q |-> <<>>, out |-> {}, exit |-> exit, loop |-> "exit"]

\* cosiSendAnnouncement when persistStore.ReadRound fails (cosi.go 155-158):
\* the handler has registered the aggregator of the transaction and stamped
\* the snapshot when it reads the external round of an empty cache round.
cosiSendAnnouncementReadError(st, m, caught, broadcasted, clock) ==
    LET s == m.Snapshot
        r == cosiSendAnnouncement(st, m, caught, broadcasted, clock)
        ts == StampFor(st, s, clock)
        agg == NewAggregator(s, s.Transaction)
        reads == /\ st.cache[s.NodeId] # Nil /\ st.final[s.NodeId] # Nil
                 /\ Len(st.cache[s.NodeId][1].Snapshots) = 0
                 /\ r.exit \in {"nil round", "link not advanced",
                                "references refreshed", "announced"}
    IN  IF reads
        THEN At(ts, Failed(SetNew(st, TransactionKey(s.Transaction),
                                  FreshId(st),
                                  [agg EXCEPT !.Snapshot =
                                      [s EXCEPT !.Timestamp = ts]]),
                           "read error"))
        ELSE r

HandleSelfEmptyReadError ==
    /\ Handling(CosiActionSelfEmpty)
    /\ \E caught \in BOOLEAN : \E broadcasted \in BOOLEAN :
        /\ cosiSendAnnouncementReadError(St, inflight[1], caught,
                                         broadcasted, now).loop = "exit"
        /\ Return(inflight[1],
                  cosiSendAnnouncementReadError(St, inflight[1], caught,
                                                broadcasted, now))

NextFailing ==
    \/ Receive
    \/ HandleSelfEmpty
    \/ HandleSelfEmptyReadError
    \/ Tick
    \/ SelfSnapshot

SpecFailing == (Init \/ InitLinked) /\ [][NextFailing]_vars

(***************************************************************************)
(* The participant of the signing exchange under fair scheduling: a peer   *)
(* announces snapshots of its chain, and any member of the committee sends *)
(* challenges for the hashes the node has a verifier for, with one or the  *)
(* other of two aggregate commitments.  CosiLoop takes every queued action *)
(* and runs its handler.                                                   *)
(***************************************************************************)
Aggregates ==
    {CosiAggregateCommitment({<<i, Public(1)>> : i \in signers}) :
        signers \in {{1, 2, 3}, {1, 2, 4}}}

AnyChallenge ==
    \E peerId \in Peers : \E snap \in (DOMAIN CosiVerifiers) \cup {BadHash} :
    \E cosi \in Aggregates :
        CosiQueueExternalChallenge(peerId, snap, cosi, Nil)

NextResponding ==
    \/ Receive
    \/ HandleExternalAnnouncement
    \/ HandleExternalChallenge
    \/ PeerAnnouncement
    \/ AnyChallenge

SpecResponding ==
    /\ Init
    /\ [][NextResponding]_vars
    /\ WF_vars(Receive)
    /\ WF_vars(HandleExternalAnnouncement)
    /\ WF_vars(HandleExternalChallenge)

(***************************************************************************)
(* The synchronisation with a neighbor (network package).                  *)
(***************************************************************************)
\* handle.ReadSnapshotsForNodeRound: the written snapshots of a round of a
\* chain, in the order they were written
ReadSnapshotsForNodeRound(st, node, number) ==
    SelectSeq(st.snaps, LAMBDA x : /\ x.Snapshot.NodeId = node
                                   /\ x.Snapshot.RoundNumber = number)

\* handle.ReadSnapshotsSinceTopology: up to count written snapshots from a
\* topological order on, in that order
ReadSnapshotsSinceTopology(st, from, count) ==
    LET since == SelectSeq(st.snaps, LAMBDA x : x.TopologicalOrder >= from)
    IN  SubSeq(since, 1, IF Len(since) < count THEN Len(since) ELSE count)

SyncBatch == 1000

\* handle.BuildGraph: the sync points of the node's final rounds
BuildGraph ==
    LET known == SelectSeq(SortedConsensusNodes,
                           LAMBDA n : FinalCache[n] # Nil)
    IN  [i \in 1..Len(known) |->
            [NodeId |-> FinalCache[known[i]][1].NodeId,
             Number |-> FinalCache[known[i]][1].Number]]

\* localFilter[id] (part_000 13-16): the last point of the chain in local
LocalPoint(local, id) ==
    LET at == {i \in 1..Len(local) : local[i].NodeId = id}
    IN  IF at = {} THEN Nil
        ELSE Some(local[CHOOSE i \in at : \A j \in at : j <= i])

\* a comparison that takes the latest of the qualifying rounds
RECURSIVE CompareLatest(_, _, _, _)
CompareLatest(st, local, remote, offset) ==
    IF remote = <<>> THEN [offset |-> offset, panic |-> FALSE]
    ELSE
    LET r == Head(remote)
        l == LocalPoint(local, r.NodeId)
        ss == ReadSnapshotsForNodeRound(st, r.NodeId, r.Number)
        order == ss[Len(ss)].TopologicalOrder
        topology == IF order = 0 THEN 1 ELSE order
    IN  IF l = Nil THEN CompareLatest(st, local, Tail(remote), offset)
        ELSE IF l[1].Number < r.Number
            THEN CompareLatest(st, local, Tail(remote), offset)
        ELSE IF Len(ss) = 0 THEN [offset |-> offset, panic |-> TRUE]
        ELSE CompareLatest(st, local, Tail(remote),
                           IF offset = 0 \/ topology > offset THEN topology
                           ELSE offset)

\* The loop of compareRoundGraphAndGetTopologicalOffset over the remote
\* points (part_000 18-43): [offset, panic]
RECURSIVE CompareFrom(_, _, _, _)
CompareFrom(st, local, remote, offset) ==
    IF remote = <<>> THEN [offset |-> offset, panic |-> FALSE]
    ELSE
    LET r == Head(remote)
        l == LocalPoint(local, r.NodeId)
        ss == ReadSnapshotsForNodeRound(st, r.NodeId, r.Number)
        order == ss[Len(ss)].TopologicalOrder
        topology == IF order = 0 THEN 1 ELSE order
    IN  IF l = Nil THEN CompareFrom(st, local, Tail(remote), offset)
        ELSE IF l[1].Number < r.Number
            THEN CompareFrom(st, local, Tail(remote), offset)
        ELSE IF Len(ss) = 0 THEN [offset |-> offset, panic |-> TRUE]
        ELSE CompareFrom(st, local, Tail(remote),
                         IF offset = 0 \/ topology < offset THEN topology
                         ELSE offset)

\* Peer.compareRoundGraphAndGetTopologicalOffset
compareRoundGraphAndGetTopologicalOffset(st, local, remote) ==
    CompareFrom(st, local, remote, 0)

\* a loop that sends a snapshot whatever the filter has of it
RECURSIVE SyncUnfiltered(_, _, _, _, _, _, _)
SyncUnfiltered(ss, legacy, offset, filter, out, clock, bad) ==
    IF ss = <<>>
    THEN [offset |-> offset, filter |-> filter, out |-> out, err |-> FALSE]
    ELSE
    LET x == Head(ss)
        hash == PayloadHash(x.Snapshot)
    IN  IF x.TopologicalOrder \notin legacy
        THEN SyncUnfiltered(Tail(ss), legacy, x.TopologicalOrder, filter, out,
                            clock, bad)
        ELSE IF x.TopologicalOrder = bad
            THEN [offset |-> offset, filter |-> filter, out |-> out,
                  err |-> TRUE]
        ELSE SyncUnfiltered(Tail(ss), legacy, x.TopologicalOrder,
                            (hash :> clock) @@ filter, Append(out, x), clock,
                            bad)

\* The loop of syncToNeighborSince over the snapshots read (part_000 52-67):
\* the send of the snapshot with the order bad fails.
RECURSIVE SyncFrom(_, _, _, _, _, _, _)
SyncFrom(ss, legacy, offset, filter, out, clock, bad) ==
    IF ss = <<>>
    THEN [offset |-> offset, filter |-> filter, out |-> out, err |-> FALSE]
    ELSE
    LET x == Head(ss)
        hash == PayloadHash(x.Snapshot)
    IN  IF x.TopologicalOrder \notin legacy
        THEN SyncFrom(Tail(ss), legacy, x.TopologicalOrder, filter, out,
                      clock, bad)
        ELSE IF /\ hash \in DOMAIN filter
                /\ filter[hash] + SnapshotRoundGap * 2 > clock
            THEN SyncFrom(Tail(ss), legacy, x.TopologicalOrder, filter, out,
                          clock, bad)
        ELSE IF x.TopologicalOrder = bad
            THEN [offset |-> offset, filter |-> filter, out |-> out,
                  err |-> TRUE]
        ELSE SyncFrom(Tail(ss), legacy, x.TopologicalOrder,
                      (hash :> clock) @@ filter, Append(out, x), clock, bad)

\* Peer.syncToNeighborSince: [offset, filter, out, err]
syncToNeighborSince(st, legacy, offset, filter, clock, bad) ==
    SyncFrom(ReadSnapshotsSinceTopology(st, offset, SyncBatch), legacy,
             offset, filter, <<>>, clock, bad)

\* the record of the times at which the hashes were sent, with the sends of
\* one iteration added
Sends(sends, out, clock) ==
    LET hashes == {PayloadHash(out[i].Snapshot) : i \in 1..Len(out)}
        times(h) == IF h \in DOMAIN sends THEN sends[h] ELSE <<>>
        count(h) == Cardinality({i \in 1..Len(out) :
                                    PayloadHash(out[i].Snapshot) = h})
        more(h) == [i \in 1..count(h) |-> clock]
    IN  [h \in DOMAIN sends \cup hashes |-> times(h) \o more(h)]

MaxSyncClock == 6

\* One iteration of syncToNeighborLoop (part_000 78-100): g is the graph the
\* neighbor sent, if one has arrived; syncToNeighborSince sleeps for the
\* round gap when no send failed.
Iteration(g, bad) ==
    LET compared == IF g = Nil THEN [offset |-> 0, panic |-> FALSE]
                    ELSE compareRoundGraphAndGetTopologicalOffset(St,
                            BuildGraph, g[1])
        offset == IF compared.offset > 0 THEN compared.offset
                  ELSE neighbor.offset
        since == syncToNeighborSince(St, neighbor.legacy, offset,
                                     neighbor.filter, now, bad)
    IN  /\ loop = "run"
        /\ now + SnapshotRoundGap <= InitialClock + MaxSyncClock
        /\ loop' = IF compared.panic THEN "panic" ELSE "run"
        /\ neighbor' =
            IF compared.panic THEN neighbor
            ELSE IF offset = 0
            THEN [neighbor EXCEPT !.graph = g, !.compared = compared.offset,
                                  !.since = 0, !.returned = 0, !.out = <<>>,
                                  !.bad = -1]
            ELSE [neighbor EXCEPT
                    !.offset = IF since.offset > 0 THEN since.offset
                               ELSE offset,
                    !.filter = since.filter,
                    !.graph = g,
                    !.compared = compared.offset,
                    !.since = offset,
                    !.returned = since.offset,
                    !.out = since.out,
                    !.bad = IF since.err THEN bad ELSE -1,
                    !.sends = Sends(@, since.out, now)]
        /\ now' = IF compared.panic \/ offset = 0 \/ since.err THEN now
                  ELSE now + SnapshotRoundGap
        /\ sent' = {}
        /\ last' = NoHandler
        /\ UNCHANGED <<cosiActionsChan, inflight, CacheRound, FinalRound,
                       GraphTimestamp, rounds, links, snapshots, topo, aggKeys,
                       aggs, CosiVerifiers, heads, CachedTransactions,
                       FinalCache, inputs>>

\* The graphs a neighbor sends: one or two points, of the rounds 1 and 2 of
\* the chain C, of the round 0 of the node's chain and of the round 0 of a
\* chain the node does not know.
RemotePoints ==
    {[NodeId |-> "C", Number |-> number] : number \in 1..2}
    \cup {[NodeId |-> n, Number |-> 0] : n \in {Self, "E"}}

RemoteGraphs ==
    {<<p>> : p \in RemotePoints}
    \cup {<<p, q>> : p \in RemotePoints, q \in RemotePoints}

\* the sends that may fail in an iteration: none, or the one of a snapshot
FailingSends == {-1} \cup neighbor.legacy

SyncGraph ==
    \E g \in RemoteGraphs : \E bad \in FailingSends : Iteration(Some(g), bad)

SyncTimeout == \E bad \in FailingSends : Iteration(Nil, bad)

\* Time passes between two iterations of the loop.
SyncTick ==
    /\ loop = "run"
    /\ now < InitialClock + MaxSyncClock
    /\ now' = now + 1
    /\ sent' = {}
    /\ last' = NoHandler
    /\ UNCHANGED <<cosiActionsChan, inflight, loop, CacheRound, FinalRound,
                   GraphTimestamp, rounds, links, snapshots, topo, aggKeys,
                   aggs, CosiVerifiers, heads, CachedTransactions,
                   FinalCache, inputs, neighbor>>

\* the stored snapshots that carry legacy signatures, by topological order:
\* none, the second snapshot of C, or the first of C and the one of B
LegacyChoices == {{}, {5}, {4, 6}}

InitSync == \E legacy \in LegacyChoices :
                InitWith(AcceptedState, NoNeighbor(legacy))

NextSync ==
    \/ SyncTimeout
    \/ SyncGraph
    \/ SyncTick

SpecSync == InitSync /\ [][NextSync]_vars

(***************************************************************************)
(* The properties.                                                         *)
(***************************************************************************)
Cache(n) == CacheRound[n][1]
Final(n) == FinalRound[n][1]
Accepted(n) == CacheRound[n] # Nil /\ FinalRound[n] # Nil

\* the step appends one snapshot to the open round of chain n
Inserts(n) ==
    /\ CacheRound[n] # Nil /\ CacheRound'[n] # Nil
    /\ Cache(n).Number = CacheRound'[n][1].Number
    /\ Len(CacheRound'[n][1].Snapshots) = Len(Cache(n).Snapshots) + 1
    /\ SubSeq(CacheRound'[n][1].Snapshots, 1, Len(Cache(n).Snapshots))
         = Cache(n).Snapshots

\* C1: a snapshot that a handler inserts into the cache round of a chain has a
\* timestamp strictly greater than the timestamp of every snapshot the round
\* held at that moment.
C1_InsertedAfterAll ==
    [][\A n \in Chains :
          Inserts(n) =>
            \A i \in 1..Len(Cache(n).Snapshots) :
                Cache(n).Snapshots[i].Timestamp
                  < CacheRound'[n][1].Snapshots[
                        Len(CacheRound'[n][1].Snapshots)].Timestamp]_vars

\* the proposer has inserted its signed snapshot into a round that held one
C1_Witness ==
    /\ last.exit = "signed"
    /\ Len(Cache(Self).Snapshots) >= 2

\* C2: the topological orders of the written snapshots are unique and grow
\* strictly in the order of writing, and every step that writes snapshots
\* advances the counter by exactly the number of snapshots it writes.
C2_TopologicalOrder ==
    /\ [](/\ \A i, j \in 1..Len(snapshots) :
                i < j => snapshots[i].TopologicalOrder
                           < snapshots[j].TopologicalOrder
          /\ \A i \in 1..Len(snapshots) : snapshots[i].TopologicalOrder < topo)
    /\ [][topo' - topo = Len(snapshots') - Len(snapshots)]_vars

\* the proposer has written a snapshot after the acceptor wrote one of B's
C2_Witness ==
    /\ last.exit = "signed"
    /\ \E i \in 1..Len(snapshots) :
        /\ snapshots[i].Snapshot.NodeId = "B"
        /\ snapshots[i].Snapshot.Timestamp >= InitialClock

\* the aggregate of s verifies against the committee at its timestamp
Verifies(s) ==
    /\ s.Signature # Nil
    /\ CacheVerifyCosi(PayloadHash(s), s.Signature[1],
                       ConsensusThreshold(s.Timestamp))

\* C3: every snapshot that was written or stands in a cache round (the genesis
\* snapshots apart) carries an aggregate signature that verifies with at least
\* the threshold of signers, and so does every snapshot sent in a Finalization.
C3_SignedByThreshold ==
    /\ \A i \in 1..Len(snapshots) :
        snapshots[i].Snapshot.Transaction # "genesis"
            => Verifies(snapshots[i].Snapshot)
    /\ \A n \in Chains : CacheRound[n] # Nil =>
        \A i \in 1..Len(Cache(n).Snapshots) : Verifies(Cache(n).Snapshots[i])
    /\ \A msg \in sent : msg.type = "Finalization" => Verifies(msg.snapshot)

\* the proposer has persisted and broadcast a snapshot it collected the
\* signature of
C3_Witness ==
    /\ last.exit = "signed"
    /\ \E msg \in sent : msg.type = "Finalization"
    /\ Cache(Self).Snapshots[Len(Cache(Self).Snapshots)].Timestamp
         >= InitialClock

\* C4: the self reference of an open round, and of every snapshot in it, is
\* the hash of the final round of its chain.
C4_SelfReferenceIsFinal ==
    \A n \in Chains : Accepted(n) =>
        /\ Cache(n).References.Self = Final(n).Hash
        /\ \A i \in 1..Len(Cache(n).Snapshots) :
            Cache(n).Snapshots[i].References.Self = Final(n).Hash

\* C5: the external round an open round refers to, when the store knows it,
\* is a round of another chain, and so for every snapshot in the round.
C5_ExternalIsOtherChain ==
    \A n \in Chains : CacheRound[n] # Nil =>
        /\ \A r \in rounds :
            r.Hash = Cache(n).References.External => r.NodeId # n
        /\ \A i \in 1..Len(Cache(n).Snapshots) : \A r \in rounds :
            r.Hash = Cache(n).Snapshots[i].References.External
                => r.NodeId # n

\* the store holds the snapshot
Written(s) ==
    \E i \in 1..Len(snapshots) :
        PayloadHash(snapshots[i].Snapshot) = PayloadHash(s)

\* C6: a Finalization of a snapshot that the store already holds is dropped.
\* Handled by the loop, it leaves the round graph, the store, the counter and
\* the registries as they are and queues nothing; at the entry point, no
\* Finalization is queued for a snapshot whose transaction its chain records.
C6_RedeliveryDropped ==
    [][/\ (/\ Handling(CosiActionFinalization)
           /\ Written(inflight[1].Snapshot)
           /\ inflight' = <<>>)
          => UNCHANGED <<cosiActionsChan, loop, CacheRound, FinalRound,
                         GraphTimestamp, rounds, links, snapshots, topo,
                         aggKeys, aggs, CosiVerifiers, heads, FinalCache>>
       /\ (/\ inflight' = inflight
           /\ Len(cosiActionsChan') = Len(cosiActionsChan) + 1
           /\ cosiActionsChan'[Len(cosiActionsChan')].Action
                = CosiActionFinalization)
          => ~CheckTransactionInNode(St,
                cosiActionsChan'[Len(cosiActionsChan')].Snapshot.NodeId,
                cosiActionsChan'[Len(cosiActionsChan')].Snapshot.Transaction)
      ]_vars

\* a Finalization that was queued twice has been handled twice
C6_Witness ==
    /\ last.exit = "in node"
    /\ last.action = CosiActionFinalization
    /\ \E i \in 1..Len(snapshots) :
        snapshots[i].Snapshot.Timestamp >= InitialClock

\* the aggregators of one transaction, by the keys of the registry
SameRecord(txs) ==
    \A k1, k2 \in DOMAIN aggKeys :
        /\ aggs[aggKeys[k1]].Transaction = aggs[aggKeys[k2]].Transaction
        /\ aggs[aggKeys[k1]].Transaction \in txs
        => aggKeys[k1] = aggKeys[k2]

\* C7, as the specification states it: all registry keys of one transaction map to one
\* aggregator, for steady-state and for initial-accept snapshots alike.
C7_OneAggregator == SameRecord(Transactions \cup AcceptTransactions)

\* C7, amended: all registry keys of one steady-state transaction map to one
\* aggregator.
C7_OneSteadyAggregator == SameRecord(Transactions)

\* a second SelfEmpty of a transaction was dropped for its aggregator
C7_Witness ==
    /\ last.exit = "duplicate"
    /\ \E k \in DOMAIN aggKeys : k[1] = "s"

\* C8: the timestamp of an open round never decreases while its number stays
\* the same.
C8_TimestampMonotonic ==
    [][\A n \in Chains :
          (/\ CacheRound[n] # Nil /\ CacheRound'[n] # Nil
           /\ CacheRound'[n][1].Number = Cache(n).Number)
          => CacheRound'[n][1].Timestamp >= Cache(n).Timestamp]_vars

\* C9: the number of the open round is the number of the final round plus
\* one, and a step that replaces the final round of a chain installs one whose
\* number is greater by exactly one.
C9_FinalGrowsByOne ==
    /\ [](\A n \in Chains :
            Accepted(n) => Cache(n).Number = Final(n).Number + 1)
    /\ [][\A n \in Chains :
            (/\ FinalRound[n] # Nil /\ FinalRound'[n] # Nil
             /\ FinalRound'[n] # FinalRound[n])
            => FinalRound'[n][1].Number = Final(n).Number + 1]_vars

\* the proposer has sealed its round and opened the next
C9_Witness ==
    /\ last.exit = "announced in new round"
    /\ Final(Self).Number = 1

\* C10: the loop runs one handler at a time and takes the actions in the
\* order they were queued: at most one action is being handled, the loop takes
\* the head of the queue and only when no handler runs, everything else is
\* queued at the tail, and the round graph and the verifier registry change
\* only in the step in which the one running handler returns.
C10_OneInOrder ==
    /\ [](Len(inflight) <= 1)
    /\ [][/\ inflight' # inflight /\ inflight' # <<>>
             => /\ inflight = <<>>
                /\ cosiActionsChan # <<>>
                /\ inflight' = <<Head(cosiActionsChan)>>
                /\ cosiActionsChan' = Tail(cosiActionsChan)
          /\ ~(inflight' # inflight /\ inflight' # <<>>)
             => /\ Len(cosiActionsChan') >= Len(cosiActionsChan)
                /\ SubSeq(cosiActionsChan', 1, Len(cosiActionsChan))
                     = cosiActionsChan
          /\ <<CacheRound, FinalRound, GraphTimestamp, CosiVerifiers>>'
               # <<CacheRound, FinalRound, GraphTimestamp, CosiVerifiers>>
             => Len(inflight) = 1 /\ inflight' = <<>>]_vars

\* peers have queued two actions while a handler ran, and the loop has taken
\* the first of them
C10_Witness ==
    /\ Len(inflight) = 1
    /\ Len(cosiActionsChan) = 1
    /\ inflight[1].Action = CosiActionFinalization
    /\ cosiActionsChan[1].Action = CosiActionExternalAnnouncement

\* the actions that wait in the channel or are being handled
Pending == {cosiActionsChan[i] : i \in 1..Len(cosiActionsChan)}
               \cup {inflight[i] : i \in 1..Len(inflight)}

\* C11: every ExternalAnnouncement action in the channel or in the handler
\* comes from the snapshot's node, a committee member other than this node,
\* in the current version, with a timestamp and without a signature (the entry
\* point queued nothing otherwise), and cosiHandleAnnouncement never leaves
\* through its fatal check.
C11_AnnouncementsPassFatalChecks ==
    /\ \A m \in Pending : m.Action = CosiActionExternalAnnouncement =>
        /\ m.Snapshot.NodeId \in ConsensusNodes
        /\ m.PeerId = m.Snapshot.NodeId
        /\ m.Snapshot.NodeId # Self
        /\ m.Snapshot.Version = SnapshotVersion
        /\ m.Snapshot.Timestamp # 0
        /\ m.Snapshot.Signature = Nil
    /\ ~(/\ last.action = CosiActionExternalAnnouncement
         /\ last.exit = "should never be here")

\* an announcement that came through the entry point got its commitment
C11_Witness ==
    /\ last.action = CosiActionExternalAnnouncement
    /\ last.exit = "commitment sent"

\* the step is one of a peer thread or of the clock, not of the loop
Outside == inflight' = inflight

\* C12: a SelfResponse action is put on the channel only for a response that
\* passes VerifyResponse against the aggregate stored in the aggregator, with
\* the committee index of the sender; no step of a peer thread changes an
\* aggregator, so a response that fails leaves it as it was.
C12_ResponsesVerified ==
    [][Outside =>
        /\ UNCHANGED <<aggKeys, aggs>>
        /\ \A i \in 1..Len(cosiActionsChan') :
            (/\ i > Len(cosiActionsChan)
             /\ cosiActionsChan'[i].Action = CosiActionSelfResponse) =>
                LET m == cosiActionsChan'[i]
                IN  /\ m.SnapshotHash \in DOMAIN aggKeys
                    /\ aggs[aggKeys[m.SnapshotHash]].Snapshot.Signature # Nil
                    /\ VerifyResponse(
                          aggs[aggKeys[m.SnapshotHash]].Snapshot.Signature[1],
                          IndexOf(m.PeerId), m.Response, m.SnapshotHash)]_vars

\* a response that passed the entry point was recorded
C12_Witness ==
    /\ last.action = CosiActionSelfResponse
    /\ last.exit = "responded"

\* what the peers send to VerifyAndQueueAppendSnapshotFinalization
FinalizationsSent ==
    {<<"B", Signed(s, {2, 3, 4})>> : s \in PeerSnapshots("B")}
    \cup {<<"B", Signed(s, {2, 3})>> :
            s \in {x \in PeerSnapshots("B") : x.Transaction = "t1"}}
    \cup RejectedFinalizations
    \cup {<<"B", Signed(OwnFinalized, {2, 3, 4})>>}

\* C13: a call of VerifyAndQueueAppendSnapshotFinalization puts at most the
\* Finalization action of its snapshot on the channel, and only when the
\* sender is in the committee, the snapshot has the current version, its
\* aggregate verifies with the threshold and its chain does not record its
\* transaction; whenever the aggregate of a committee member's snapshot
\* verifies, the Confirm message goes to the sender, queued or not.
C13_QueuedOnlyVerified ==
    [][\A p \in IF Outside /\ now' = now THEN FinalizationsSent ELSE {} :
        LET verified == /\ p[1] \in ConsensusNodes
                        /\ p[2].Version = SnapshotVersion
                        /\ Verifies(p[2])
        IN  \/ /\ \/ cosiActionsChan' = cosiActionsChan
                   \/ /\ cosiActionsChan' = Append(cosiActionsChan,
                             [Action |-> CosiActionFinalization,
                              PeerId |-> p[1], Snapshot |-> p[2]])
                      /\ verified
                      /\ ~CheckTransactionInNode(St, p[2].NodeId,
                                                 p[2].Transaction)
               /\ verified <=>
                     [type |-> "Confirm", to |-> p[1],
                      hash |-> PayloadHash(p[2])] \in sent'
            \/ ~VerifyAndQueueAppendSnapshotFinalization(p[1], p[2])]_vars

\* the sender of a verified snapshot that the chain already records got its
\* Confirm, and nothing was queued
C13_Witness ==
    /\ \E msg \in sent : msg.type = "Confirm"
    /\ cosiActionsChan = <<>> /\ inflight = <<>>
    /\ \E i \in 1..Len(snapshots) :
        /\ snapshots[i].Snapshot.NodeId = "B"
        /\ snapshots[i].Snapshot.Timestamp >= InitialClock

\* the aggregator an action of the signing exchange is addressed to
AggOf(m) == aggs[aggKeys[m.SnapshotHash]]

\* C14: a SelfCommitment of a peer that the aggregator of the snapshot already
\* counted changes nothing in the registry (the commitments, the commitment
\* and the want_tx flag of the peer included) and sends no Challenge.
C14_SecondCommitmentDropped ==
    [][(/\ Handling(CosiActionSelfCommitment)
        /\ inflight' = <<>>
        /\ inflight[1].SnapshotHash \in DOMAIN aggKeys
        /\ inflight[1].PeerId \in AggOf(inflight[1]).committed)
       => /\ UNCHANGED <<aggKeys, aggs>>
          /\ \A msg \in sent' : msg.type # "Challenge"]_vars

\* a second commitment of a peer whose first one is recorded was handled
C14_Witness ==
    /\ last.action = CosiActionSelfCommitment
    /\ last.exit = "already committed"
    /\ \E id \in DOMAIN aggs :
        \E p \in aggs[id].Commitments :
            SortedConsensusNodes[p[1]] \in aggs[id].committed

\* the responses of an aggregator with the one the action brings
Collected(m) ==
    AggOf(m).Responses \cup {<<IndexOf(m.PeerId), m.Response>>}

\* the last response of a signing round is being handled by a node that is
\* caught up: the aggregator of a steady-state snapshot that is not yet
\* finalized holds a threshold of commitments, their aggregate and all
\* responses but one, the action brings the missing one of a committee member
\* not yet counted, and every response verifies
Completes(m) ==
    /\ Handling(CosiActionSelfResponse)
    /\ inflight' = <<>>
    /\ last'.exit # "not caught up"
    /\ m.SnapshotHash \in DOMAIN aggKeys
    /\ AggOf(m).Transaction \in Transactions
    /\ m.PeerId \in ConsensusNodes \ AggOf(m).responsed
    /\ AggOf(m).Snapshot.Signature # Nil
    /\ Cardinality(AggOf(m).Commitments)
         >= ConsensusThreshold(AggOf(m).Snapshot.Timestamp)
    /\ Cardinality(AggOf(m).Responses)
         = Cardinality(AggOf(m).Commitments) - 1
    /\ ~TransactionFinalized(St, AggOf(m).Snapshot.Transaction)
    /\ \A p \in Collected(m) :
        VerifyResponse(AggOf(m).Snapshot.Signature[1], p[1], p[2],
                       m.SnapshotHash)

\* the snapshot of an aggregator with the aggregate of all responses
FullySigned(m) ==
    [AggOf(m).Snapshot EXCEPT
        !.Signature = Some(AggregateResponse(@[1], Collected(m)))]

\* C15: when the last of the valid responses to an announced snapshot S is
\* handled while the cache round of the node's chain is as the announcement
\* left it, S is written once with the next topological order, appended to
\* the cache round of the node's chain and sent as Finalization to every
\* committee member; no snapshot is ever written twice.
C15_HappyPath ==
    /\ [](\A i, j \in 1..Len(snapshots) :
            i < j => PayloadHash(snapshots[i].Snapshot)
                       # PayloadHash(snapshots[j].Snapshot))
    /\ [][(/\ Completes(inflight[1])
           /\ Cache(Self).Number = AggOf(inflight[1]).Snapshot.RoundNumber
           /\ ReferencesEqual(Cache(Self).References,
                              AggOf(inflight[1]).Snapshot.References)
           /\ Cache(Self).Timestamp = AggOf(inflight[1]).Snapshot.Timestamp)
          => LET S == FullySigned(inflight[1])
             IN  /\ snapshots' = Append(snapshots,
                        [Snapshot |-> S, TopologicalOrder |-> topo])
                 /\ topo' = topo + 1
                 /\ CacheRound'[Self][1].Snapshots
                      = Append(Cache(Self).Snapshots, S)
                 /\ Verifies(S)
                 /\ \A id \in ConsensusNodes :
                        [type |-> "Finalization", to |-> id, snapshot |-> S]
                            \in sent']_vars

\* the proposer has signed a snapshot and sent it to the whole committee
C15_Witness ==
    /\ last.action = CosiActionSelfResponse
    /\ last.exit = "signed"
    /\ Cardinality({msg \in sent : msg.type = "Finalization"})
         = Cardinality(ConsensusNodes)

\* C16: the aggregate built from a threshold of commitments and the verifying
\* responses of the same members passes the threshold verification, and
\* cosiHandleResponse goes on with it; an aggregate in which a response is
\* missing or is another scalar does not verify, and cosiHandleResponse writes
\* no snapshot, leaves the counter and the cache rounds alone and sends no
\* Finalization unless all responses are there and verify.
C16_AggregateVerifies ==
    [][(Handling(CosiActionSelfResponse) /\ inflight' = <<>>) =>
        /\ Completes(inflight[1]) =>
            /\ CacheVerifyCosi(inflight[1].SnapshotHash,
                    FullySigned(inflight[1]).Signature[1],
                    ConsensusThreshold(AggOf(inflight[1]).Snapshot.Timestamp))
            /\ last'.exit # "not verified"
        /\ (/\ inflight[1].SnapshotHash \in DOMAIN aggKeys
            /\ AggOf(inflight[1]).Snapshot.Signature # Nil
            /\ inflight[1].PeerId \in ConsensusNodes
            /\ \/ \E p \in Collected(inflight[1]) :
                    ~VerifyResponse(AggOf(inflight[1]).Snapshot.Signature[1],
                                    p[1], p[2], inflight[1].SnapshotHash)
               \/ Cardinality(Collected(inflight[1]))
                    < Cardinality(AggOf(inflight[1]).Commitments))
           => ~CacheVerifyCosi(inflight[1].SnapshotHash,
                    FullySigned(inflight[1]).Signature[1],
                    ConsensusThreshold(AggOf(inflight[1]).Snapshot.Timestamp))
        /\ (\/ snapshots' # snapshots
            \/ topo' # topo
            \/ CacheRound' # CacheRound
            \/ \E msg \in sent' : msg.type = "Finalization")
           => Completes(inflight[1])]_vars

\* the last response was another scalar than the committed nonce gives, and
\* the aggregate did not verify
C16_Witness ==
    /\ last.action = CosiActionSelfResponse
    /\ last.exit = "not verified"
    /\ snapshots = AcceptedState.snaps

\* the cases in which cosiHandleCommitment ignores the commitment m: there is
\* no aggregator for its snapshot, or the aggregator already counted the peer
NotCounted(m) ==
    \/ m.SnapshotHash \notin DOMAIN aggKeys
    \/ m.PeerId \in AggOf(m).committed

\* ... or the peer is not in the committee, or the commitments have reached
\* the threshold
Surplus(m) ==
    /\ ~NotCounted(m)
    /\ \/ m.PeerId \notin ConsensusNodes
       \/ Cardinality(AggOf(m).Commitments)
            >= ConsensusThreshold(AggOf(m).Snapshot.Timestamp)

\* C17, as the specification states it: in all four cases the handler leaves
\* the registry as it is and sends nothing.
C17_IgnoredUnchanged ==
    [][(/\ Handling(CosiActionSelfCommitment)
        /\ inflight' = <<>>
        /\ NotCounted(inflight[1]) \/ Surplus(inflight[1]))
       => UNCHANGED <<aggKeys, aggs>> /\ sent' = {}]_vars

\* C17, amended: in all four cases the handler sends nothing and leaves the
\* commitments, the want_tx flags and the snapshot of every aggregator as
\* they are; the committed-by set stays as it is when the aggregator is absent
\* or has counted the peer, and gains the peer when the peer is outside the
\* committee or the commitments are at the threshold (and the node is caught
\* up).
C17_IgnoredButMarked ==
    [][(/\ Handling(CosiActionSelfCommitment)
        /\ inflight' = <<>>
        /\ NotCounted(inflight[1]) \/ Surplus(inflight[1]))
       => /\ sent' = {}
          /\ aggKeys' = aggKeys
          /\ NotCounted(inflight[1]) => aggs' = aggs
          /\ Surplus(inflight[1]) =>
                aggs' = IF last'.exit = "not caught up" THEN aggs
                        ELSE [aggs EXCEPT
                                ![aggKeys[inflight[1].SnapshotHash]].committed
                                    = @ \cup {inflight[1].PeerId}]]_vars

\* a commitment that came when the threshold was reached left its sender in
\* the committed-by set without a commitment
C17_Witness ==
    /\ last.action = CosiActionSelfCommitment
    /\ last.exit = "enough"
    /\ \E id \in DOMAIN aggs :
        \E peer \in aggs[id].committed \cap ConsensusNodes :
            \A p \in aggs[id].Commitments : p[1] # IndexOf(peer)

\* the commitment m brings the commitments of its aggregator to the threshold:
\* the node is caught up, the aggregator has not counted the peer, the peer
\* is in the committee, one commitment is missing and the transaction is not
\* finalized
ReachesThreshold(m) ==
    /\ Handling(CosiActionSelfCommitment)
    /\ inflight' = <<>>
    /\ last'.exit # "not caught up"
    /\ m.SnapshotHash \in DOMAIN aggKeys
    /\ m.PeerId \in ConsensusNodes \ AggOf(m).committed
    /\ Cardinality(AggOf(m).Commitments)
         = ConsensusThreshold(AggOf(m).Snapshot.Timestamp) - 1
    /\ ~TransactionFinalized(St, AggOf(m).Snapshot.Transaction)

\* the Challenge messages of a step
Challenges == {msg \in sent' : msg.type = "Challenge"}

\* a Challenge is sent only by the step that brings the commitments of an
\* aggregator to the threshold, and commitments at the threshold stay as they
\* are: the Challenge round of an aggregator is sent at most once
ChallengedOnce ==
    /\ Challenges # {} => ReachesThreshold(inflight[1])
    /\ \A h \in DOMAIN aggKeys \cap DOMAIN aggKeys' :
        Cardinality(aggs[aggKeys[h]].Commitments)
            >= ConsensusThreshold(aggs[aggKeys[h]].Snapshot.Timestamp)
        => aggs'[aggKeys'[h]].Commitments = aggs[aggKeys[h]].Commitments

\* C18, as the specification states it: the step that brings the commitments
\* to the threshold sends a Challenge to every committee member, with the
\* transaction for those that asked for it, and it does so at most once.
C18_ChallengeToAll ==
    [][/\ ChallengedOnce
       /\ ReachesThreshold(inflight[1]) =>
            \A id \in ConsensusNodes : \E msg \in Challenges :
                /\ msg.to = id
                /\ msg.hash = inflight[1].SnapshotHash
                /\ msg.tx # Nil <=>
                     <<id, TRUE>> \in
                      aggs'[aggKeys[inflight[1].SnapshotHash]].WantTxs]_vars

\* C18, amended: the step that brings the commitments to the threshold sends
\* one Challenge, carrying the aggregate of the commitments, to each member
\* whose commitment the aggregator recorded and to nobody else, with the
\* transaction exactly for those whose commitment set want_tx; it does so at
\* most once for an aggregator.
C18_ChallengeToCommitted ==
    [][/\ ChallengedOnce
       /\ ReachesThreshold(inflight[1]) =>
            LET ann == aggs'[aggKeys[inflight[1].SnapshotHash]]
            IN  /\ {SortedConsensusNodes[p[1]] : p \in ann.Commitments}
                     = {p[1] : p \in ann.WantTxs}
                /\ Challenges =
                     {[type |-> "Challenge", to |-> p[1],
                       hash |-> inflight[1].SnapshotHash,
                       cosi |-> CosiAggregateCommitment(ann.Commitments),
                       tx |-> IF p[2] THEN Some(ann.Transaction) ELSE Nil] :
                         p \in ann.WantTxs}
                /\ sent' = Challenges
                /\ ann.Snapshot.Signature
                     = Some(CosiAggregateCommitment(ann.Commitments))]_vars

\* the Challenge went to the three members that committed, with the
\* transaction for one of them, and not to the fourth member
C18_Witness ==
    /\ last.action = CosiActionSelfCommitment
    /\ last.exit = "challenged"
    /\ \E msg \in sent : msg.type = "Challenge" /\ msg.tx # Nil
    /\ \E msg \in sent : msg.type = "Challenge" /\ msg.tx = Nil
    /\ \E id \in ConsensusNodes : \A msg \in sent : msg.to # id

\* the open round of its chain takes the signed snapshot of m: the snapshot
\* is of that round, has its references and passes its validation
Admits(m) ==
    LET S == FullySigned(m)
        cache == Cache(S.NodeId)
    IN  /\ S.RoundNumber = cache.Number
        /\ ReferencesEqual(S.References, cache.References)
        /\ ValidateSnapshot(cache, S, FALSE)[1]

\* C19: when the proposer handles the last response to a steady-state
\* snapshot S, it writes S and appends it to the cache round of the chain
\* only if S has the number and the references of that round and passes its
\* validation; otherwise it forgets the aggregator, queues a blank snapshot
\* of the same transaction, leaves the storage, the counter and the cache
\* rounds alone and sends nothing.
C19_PersistOnlyInRound ==
    [][Completes(inflight[1]) =>
        LET S == FullySigned(inflight[1])
        IN  /\ (\/ snapshots' # snapshots
                \/ topo' # topo
                \/ CacheRound' # CacheRound
                \/ \E msg \in sent' : msg.type = "Finalization")
               => Admits(inflight[1])
            /\ Admits(inflight[1]) =>
                /\ snapshots' = Append(snapshots,
                        [Snapshot |-> S, TopologicalOrder |-> topo])
                /\ CacheRound'[S.NodeId][1].Snapshots
                     = Append(Cache(S.NodeId).Snapshots, S)
            /\ ~Admits(inflight[1]) =>
                /\ UNCHANGED <<snapshots, topo, CacheRound>>
                /\ sent' = {}
                /\ inflight[1].SnapshotHash \notin DOMAIN aggKeys'
                /\ TransactionKey(S.Transaction) \notin DOMAIN aggKeys'
                /\ cosiActionsChan' = Append(cosiActionsChan,
                        [Action |-> CosiActionSelfEmpty, PeerId |-> Self,
                         Snapshot |-> NewSnapshot(S.NodeId, S.Transaction)])
                /\ loop' = "run"]_vars

\* the round of the signed snapshot had passed, or the round did not take
\* it: the snapshot was queued again and not written
C19_Witness ==
    /\ last.action = CosiActionSelfResponse
    /\ last.exit \in {"round passed", "references changed", "invalid"}
    /\ sent = {}
    /\ \E i \in 1..Len(cosiActionsChan) :
        /\ cosiActionsChan[i].Action = CosiActionSelfEmpty
        /\ cosiActionsChan[i].Snapshot.Timestamp = 0

\* C20: once cosiHandleResponse has written a snapshot and sent it as
\* Finalization, node.CosiAggregators has no entry under the hash of the
\* snapshot or under its transaction.
C20_DestroyedOnFinalization ==
    (last.action = CosiActionSelfResponse /\ last.exit = "signed") =>
        \A msg \in sent : msg.type = "Finalization" =>
            /\ PayloadHash(msg.snapshot) \notin DOMAIN aggKeys
            /\ TransactionKey(msg.snapshot.Transaction) \notin DOMAIN aggKeys

\* C21: once cosiHandleFinalization has accepted and written a snapshot,
\* node.CosiVerifiers has no entry, and so no nonce, under its hash.
C21_VerifierDestroyed ==
    (last.action = CosiActionFinalization /\ last.exit = "finalized") =>
        PayloadHash(snapshots[Len(snapshots)].Snapshot)
            \notin DOMAIN CosiVerifiers

\* C22: a snapshot that cosiSendAnnouncement queued again because the cache
\* round is empty and the node has not broadcast yet is announced later.
C22_RequeuedIsAnnounced ==
    \A tx \in Transactions :
        (/\ last.action = CosiActionSelfEmpty
         /\ last.exit = "not broadcast"
         /\ cosiActionsChan # <<>>
         /\ cosiActionsChan[Len(cosiActionsChan)].Snapshot.Transaction = tx)
        ~> (\E msg \in sent : /\ msg.type = "Announcement"
                               /\ msg.snapshot.Transaction = tx)

\* the Announcement messages of a step for a snapshot of a transaction that
\* is not a node accept
Announced ==
    {msg \in sent' : /\ msg.type = "Announcement"
                     /\ msg.snapshot.Transaction \in Transactions}

\* C23: a snapshot that cosiSendAnnouncement announces in a round carries a
\* timestamp greater than the one the node's cache round had when the handler
\* started, and the stamping loop ends at the first clock value above that
\* timestamp: at once when the clock is already above it.
C23_StampedAfterCache ==
    [][(Handling(CosiActionSelfEmpty) /\ Announced # {}) =>
        /\ \A msg \in Announced :
            /\ msg.snapshot.Timestamp > Cache(Self).Timestamp
            /\ msg.snapshot.Timestamp = now'
        /\ now' = Max(now, Cache(Self).Timestamp + 1)]_vars

\* the node announced a snapshot after the stamping loop had waited for the
\* clock to pass the timestamp of the cache round
C23_Witness ==
    /\ last.action = CosiActionSelfEmpty
    /\ last.exit = "announced"
    /\ now > InitialClock + MaxClock
    /\ \E msg \in sent : /\ msg.type = "Announcement"
                          /\ msg.snapshot.Timestamp = now

\* cosiSendAnnouncement reaches the round checks with a snapshot of a
\* transaction that has no aggregator yet, the cache round of the node's
\* chain holds snapshots, and the stamp of the new snapshot is a round gap
\* or more after the start of that round
RollsOver(m) ==
    /\ Handling(CosiActionSelfEmpty)
    /\ inflight' = <<>>
    /\ last'.exit # "not caught up"
    /\ m.Snapshot.Transaction \in Transactions
    /\ ~TransactionFinalized(St, m.Snapshot.Transaction)
    /\ TransactionKey(m.Snapshot.Transaction) \notin DOMAIN aggKeys
    /\ Cache(Self).Snapshots # <<>>
    /\ StampFor(St, m.Snapshot, now)
         >= Gap(Cache(Self))[1] + SnapshotRoundGap

\* C24: when the stamp of a new snapshot of the node is a round gap or more
\* after the start of the cache round and there is a best round, the cache
\* round becomes the final round of the chain, the round after it, which
\* refers to that final round and to the best round, is stored as the head
\* of the chain and becomes the cache round, and the snapshot is announced
\* with the number and the references of the new round; when there is no
\* best round the rounds and the storage stay as they are, nothing is
\* announced and a blank snapshot of the transaction is queued.
C24_Rollover ==
    [][RollsOver(inflight[1]) =>
        LET ts == StampFor(St, inflight[1].Snapshot, now)
            best == determinBestRound(St, ts)
            final == asFinal(Cache(Self))
            refs == [Self |-> final[1].Hash, External |-> best[1].Hash]
        IN  IF best # Nil
            THEN /\ best[1].NodeId # Self
                 /\ FinalRound'[Self] = final
                 /\ CacheRound'[Self][1].Number = final[1].Number + 1
                 /\ CacheRound'[Self][1].References = refs
                 /\ CacheRound'[Self][1].Snapshots = <<>>
                 /\ heads'[Self] = [Number |-> final[1].Number + 1,
                                    References |-> refs]
                 /\ ReadRound(St', final[1].Hash) # Nil
                 /\ ReadRound(St', final[1].Hash)[1].Number = final[1].Number
                 /\ ReadRound(St', final[1].Hash)[1].Timestamp
                      = final[1].Start
                 /\ sent' # {}
                 /\ \A msg \in sent' :
                        /\ msg.type = "Announcement"
                        /\ msg.snapshot.RoundNumber = final[1].Number + 1
                        /\ msg.snapshot.References = refs
                        /\ msg.snapshot.Timestamp = ts
            ELSE /\ UNCHANGED <<CacheRound, FinalRound, GraphTimestamp,
                                rounds, links, heads, snapshots, topo>>
                 /\ sent' = {}
                 /\ cosiActionsChan' = Append(cosiActionsChan,
                        [Action |-> CosiActionSelfEmpty, PeerId |-> Self,
                         Snapshot |-> NewSnapshot(Self,
                                        inflight[1].Snapshot.Transaction)])]_vars

\* the node has sealed its round and announced a snapshot in the next one
C24_Witness ==
    /\ last.action = CosiActionSelfEmpty
    /\ last.exit = "announced in new round"
    /\ FinalRound[Self][1].Number + 1 = Cache(Self).Number
    /\ \E msg \in sent : msg.snapshot.RoundNumber = Cache(Self).Number

\* cosiHandleAnnouncement reaches the round checks with a snapshot of a chain
\* that has rounds: the node is caught up, the snapshot is neither ahead of
\* the clock nor behind the graph, and its transaction is not finalized
InRound(m) ==
    /\ Handling(CosiActionExternalAnnouncement)
    /\ inflight' = <<>>
    /\ last'.exit # "not caught up"
    /\ m.Snapshot.Timestamp
         <= now + SnapshotRoundGap * SnapshotReferenceThreshold
    /\ m.Snapshot.Timestamp + SnapshotRoundGap * SnapshotReferenceThreshold * 2
         >= GraphTimestamp
    /\ ~TransactionFinalized(St, m.Snapshot.Transaction)
    /\ FinalRound[m.Snapshot.NodeId] # Nil

\* the snapshot of m is of the open round of its chain, not too early for
\* it, and has other references than the round
Differs(m) ==
    /\ InRound(m)
    /\ m.Snapshot.RoundNumber = Cache(m.Snapshot.NodeId).Number
    /\ m.Snapshot.Timestamp
         > Final(m.Snapshot.NodeId).Start + SnapshotRoundGap
    /\ ~ReferencesEqual(m.Snapshot.References,
                        Cache(m.Snapshot.NodeId).References)

\* the four conditions under which the open round takes the references of s
MayRewrite(s) ==
    LET cache == Cache(s.NodeId)
        old == ReadRound(St, cache.References.External)
        external == ReadRound(St, s.References.External)
    IN  /\ cache.Snapshots = <<>>
        /\ s.References.Self = cache.References.Self
        /\ external # Nil
        /\ external[1].Timestamp >= old[1].Timestamp
             + AnnouncementRefreshFactor * SnapshotReferenceThreshold
               * SnapshotRoundGap
        /\ external[1].Number > ReadLink(St, s.NodeId, external[1].NodeId)

\* the rounds, the storage and the verifiers
graph == <<CacheRound, FinalRound, GraphTimestamp, rounds, links, heads,
           snapshots, topo, CosiVerifiers>>

\* C25: an announcement for the open round of its chain with other references
\* than the round changes the references of the round only if the round has
\* no snapshots, the self reference is the round's, the new external round is
\* known and at least 32 reference thresholds of round gaps younger than the
\* old one, and its number is above the link of the chain to its chain; then
\* the round keeps its self reference and takes the external one, the head
\* of the chain is updated in the storage, the announcement is queued again
\* and no Commitment is sent; otherwise the announcement is dropped and the
\* rounds, the storage and the verifiers stay as they are.
C25_ReferencesRewritten ==
    [][Differs(inflight[1]) =>
        LET s == inflight[1].Snapshot
            cache == Cache(s.NodeId)
            refs == [Self |-> cache.References.Self,
                     External |-> s.References.External]
        IN  /\ sent' = {}
            /\ loop' = "run"
            /\ IF MayRewrite(s)
               THEN /\ CacheRound'[s.NodeId][1].References = refs
                    /\ CacheRound'[s.NodeId][1].Number = cache.Number
                    /\ CacheRound'[s.NodeId][1].Snapshots = <<>>
                    /\ heads'[s.NodeId] = [Number |-> cache.Number,
                                           References |-> refs]
                    /\ \A n \in Chains \ {s.NodeId} :
                           CacheRound'[n] = CacheRound[n]
                    /\ UNCHANGED <<FinalRound, rounds, links, snapshots, topo,
                                   CosiVerifiers>>
                    /\ cosiActionsChan' = Append(cosiActionsChan, inflight[1])
               ELSE UNCHANGED <<graph, cosiActionsChan>>]_vars

\* C26: cosiHandleAnnouncement installs a verifier for a snapshot that is not
\* an initial accept, and sends its Commitment, only if the snapshot passes
\* the validation of the cache round its chain has when the handler returns,
\* whose number and references are then the snapshot's; it does the two
\* together, the Commitment goes to the node of the snapshot, and a snapshot
\* that does not pass leaves the verifiers as they are and has nothing sent.
C26_CommitsToValid ==
    [][(/\ Handling(CosiActionExternalAnnouncement)
        /\ inflight' = <<>>
        /\ ~checkInitialAcceptSnapshot(St, inflight[1].Snapshot,
                                       inflight[1].Snapshot.Transaction)) =>
        LET s == inflight[1].Snapshot
            commits == \E msg \in sent' : msg.type = "Commitment"
            passes == /\ CacheRound'[s.NodeId] # Nil
                      /\ ValidateSnapshot(CacheRound'[s.NodeId][1], s,
                                          FALSE)[1]
        IN  /\ ~commits => CosiVerifiers' = CosiVerifiers
            /\ commits =>
                /\ passes
                /\ s.RoundNumber = CacheRound'[s.NodeId][1].Number
                /\ ReferencesEqual(s.References,
                                   CacheRound'[s.NodeId][1].References)
                /\ PayloadHash(s) \in DOMAIN CosiVerifiers'
                /\ CosiVerifiers'[PayloadHash(s)].Snapshot = s
                /\ \A h \in DOMAIN CosiVerifiers \ {PayloadHash(s)} :
                       /\ h \in DOMAIN CosiVerifiers'
                       /\ CosiVerifiers'[h] = CosiVerifiers[h]
                /\ \A msg \in sent' :
                       /\ msg.type = "Commitment"
                       /\ msg.to = s.NodeId
                       /\ msg.hash = PayloadHash(s)
                       /\ msg.commitment
                            = Public(CosiVerifiers'[PayloadHash(s)].random)
            /\ ~passes => (sent' = {} /\ CosiVerifiers' = CosiVerifiers)]_vars

\* the node committed to a snapshot announced for the open round of B, and
\* holds the verifier for it
C26_Witness ==
    /\ last.action = CosiActionExternalAnnouncement
    /\ last.exit = "commitment sent"
    /\ \E msg \in sent :
        /\ msg.type = "Commitment"
        /\ msg.hash \in DOMAIN CosiVerifiers
        /\ CosiVerifiers[msg.hash].Snapshot.RoundNumber
             = Cache(msg.to).Number

\* the snapshot of m comes a round gap or less after the start of the final
\* round of its chain
TooEarly(m) ==
    m.Snapshot.Timestamp
        <= Final(m.Snapshot.NodeId).Start + SnapshotRoundGap

\* C27, as the specification states it: an announcement for a round below
\* the open round of its chain, or too early for the chain, is dropped; the
\* rounds, the storage and the verifiers stay as they are, nothing is queued
\* and nothing is sent.
C27_DroppedUnchanged ==
    [][(/\ InRound(inflight[1])
        /\ \/ inflight[1].Snapshot.RoundNumber
                < Cache(inflight[1].Snapshot.NodeId).Number
           \/ TooEarly(inflight[1]))
       => (UNCHANGED <<graph, cosiActionsChan>> /\ sent' = {})]_vars

\* C27, amended: an announcement for a round below the open round of its
\* chain, or too early for the chain and for a round that is not beyond the
\* one after the open round, is dropped; the rounds, the storage and the
\* verifiers stay as they are, nothing is queued and nothing is sent.
C27_DroppedUnlessFuture ==
    [][(/\ InRound(inflight[1])
        /\ \/ inflight[1].Snapshot.RoundNumber
                < Cache(inflight[1].Snapshot.NodeId).Number
           \/ /\ TooEarly(inflight[1])
              /\ inflight[1].Snapshot.RoundNumber
                   <= Cache(inflight[1].Snapshot.NodeId).Number + 1)
       => (UNCHANGED <<graph, cosiActionsChan>> /\ sent' = {}
           /\ loop' = "run")]_vars

\* an announcement that was too early for its chain has been dropped
C27_Witness ==
    /\ last.action = CosiActionExternalAnnouncement
    /\ last.exit = "too early"
    /\ cosiActionsChan = <<>>
    /\ sent = {}

\* C28: cosiHandleChallenge sends a Response only for a hash that has a
\* verifier; the Response is made with the nonce of that verifier over the
\* aggregate commitment and the hash of the Challenge and goes to the peer
\* that sent the Challenge. A Challenge for a hash without a verifier is
\* dropped: its transaction is not kept, the rounds and the storage stay as
\* they are, and nothing is queued or sent.
C28_RespondsWithVerifier ==
    [][(Handling(CosiActionExternalChallenge) /\ inflight' = <<>>) =>
        LET m == inflight[1]
        IN  /\ (\E msg \in sent' : msg.type = "Response") =>
                /\ m.SnapshotHash \in DOMAIN CosiVerifiers
                /\ sent' =
                     {[type |-> "Response", to |-> m.PeerId,
                       hash |-> m.SnapshotHash,
                       response |->
                         Response(IndexOf(Self),
                                  CosiVerifiers[m.SnapshotHash].random,
                                  m.Signature.R, m.SnapshotHash)]}
            /\ m.SnapshotHash \notin DOMAIN CosiVerifiers =>
                /\ sent' = {}
                /\ UNCHANGED <<graph, CachedTransactions, cosiActionsChan>>]_vars

\* the node answered a Challenge that carried the transaction
C28_Witness ==
    /\ last.action = CosiActionExternalChallenge
    /\ last.exit = "response sent"
    /\ \E msg \in sent : msg.type = "Response" /\ msg.to = "B"
    /\ CachedTransactions # {}

\* the state in which cosiHandleFinalization starts on the snapshot of m:
\* handleFinalization has tried to start a new round with it
Started(m) == tryToStartNewRound(St, m.Snapshot).st

\* handleFinalization passes the snapshot of m on to cosiHandleFinalization,
\* which finds it to be of the open round of its chain with other references
\* than the round
FinalDiffers(m) ==
    /\ Handling(CosiActionFinalization)
    /\ inflight' = <<>>
    /\ verifyFinalization(m.Snapshot)
    /\ ~tryToStartNewRound(St, m.Snapshot).err
    /\ ~CheckTransactionInNode(Started(m), m.Snapshot.NodeId,
                               m.Snapshot.Transaction)
    /\ ~checkInitialAcceptSnapshot(Started(m), m.Snapshot,
                                   m.Snapshot.Transaction)
    /\ Started(m).cache[m.Snapshot.NodeId] # Nil
    /\ m.Snapshot.RoundNumber = Started(m).cache[m.Snapshot.NodeId][1].Number
    /\ ~ReferencesEqual(m.Snapshot.References,
                        Started(m).cache[m.Snapshot.NodeId][1].References)

\* C29: when cosiHandleFinalization finds a snapshot of the open round of its
\* chain with other references than the round, it gives the round the
\* references of the snapshot, updates the head of the chain in the storage
\* and queues the snapshot again as a finalization if the round has no
\* snapshots and the chain is not the node's own; if the chain is the node's
\* own or the round holds snapshots, it drops the snapshot and leaves the
\* rounds and the storage as it found them.
C29_FinalRewrites ==
    [][FinalDiffers(inflight[1]) =>
        LET s == inflight[1].Snapshot
            st == Started(inflight[1])
            cache == st.cache[s.NodeId][1]
        IN  /\ sent' = {}
            /\ UNCHANGED <<snapshots, topo, CosiVerifiers>>
            /\ FinalRound' = st.final
            /\ rounds' = st.rounds
            /\ links' = st.links
            /\ IF cache.Snapshots = <<>> /\ s.NodeId # Self
               THEN /\ CacheRound' =
                        [st.cache EXCEPT ![s.NodeId] =
                            Some([cache EXCEPT !.References = s.References])]
                    /\ heads' = [st.heads EXCEPT ![s.NodeId] =
                                    [Number |-> cache.Number,
                                     References |-> s.References]]
                    /\ cosiActionsChan' = Append(cosiActionsChan,
                           [Action |-> CosiActionFinalization,
                            PeerId |-> inflight[1].PeerId, Snapshot |-> s])
               ELSE /\ CacheRound' = st.cache
                    /\ heads' = st.heads
                    /\ cosiActionsChan' = cosiActionsChan]_vars

\* the empty open round of B took the references of a finalized snapshot,
\* which is queued again
C29_Witness ==
    /\ last.action = CosiActionFinalization
    /\ last.exit = "references rewritten"
    /\ cosiActionsChan # <<>>
    /\ LET again == cosiActionsChan[Len(cosiActionsChan)]
       IN  /\ again.Action = CosiActionFinalization
           /\ again.Snapshot.NodeId # Self
           /\ Cache(again.Snapshot.NodeId).Snapshots = <<>>
           /\ ReferencesEqual(again.Snapshot.References,
                              Cache(again.Snapshot.NodeId).References)

\* the latest timestamp of the snapshots of a round, zero for none
RECURSIVE Latest(_)
Latest(ss) ==
    IF ss = <<>> THEN 0 ELSE Max(ss[1].Timestamp, Latest(Tail(ss)))

\* C30: between handlers, the timestamp of the open round of every chain is
\* the latest timestamp of the snapshots the round holds, and zero when it
\* holds none.
C30_TimestampIsLatest ==
    \A n \in Chains :
        CacheRound[n] # Nil =>
            Cache(n).Timestamp = Latest(Cache(n).Snapshots)

\* C30 as the code has it: between handlers, the timestamp of the open round
\* of every chain is not below the latest timestamp of the snapshots the
\* round holds, and cosiSendAnnouncement raises the timestamp of the round of
\* the node's chain to the timestamp of the snapshot it announces, which the
\* round does not hold.
C30_TimestampNotBelow ==
    /\ [](\A n \in Chains :
            CacheRound[n] # Nil =>
                Cache(n).Timestamp >= Latest(Cache(n).Snapshots))
    /\ [][(Handling(CosiActionSelfEmpty) /\ Announced # {}) =>
            \A msg \in Announced :
                /\ CacheRound'[Self][1].Timestamp = msg.snapshot.Timestamp
                /\ Latest(CacheRound'[Self][1].Snapshots)
                    < msg.snapshot.Timestamp]_vars

\* the round of the node's chain holds snapshots and has the timestamp of a
\* snapshot the node has announced, later than all of them
C30_Witness ==
    /\ last.action = CosiActionSelfEmpty
    /\ last.exit = "announced"
    /\ Cache(Self).Snapshots # <<>>
    /\ Cache(Self).Timestamp > Latest(Cache(Self).Snapshots)
    /\ \E msg \in sent : /\ msg.type = "Announcement"
                          /\ msg.snapshot.Timestamp = Cache(Self).Timestamp

\* C31: the snapshots of the open round of a chain have the number and the
\* references of the round, and no step changes the references of a round
\* that holds a snapshot.
C31_SameRoundAndReferences ==
    /\ [](\A n \in Chains :
            CacheRound[n] # Nil =>
                \A i \in 1..Len(Cache(n).Snapshots) :
                    /\ Cache(n).Snapshots[i].RoundNumber = Cache(n).Number
                    /\ ReferencesEqual(Cache(n).Snapshots[i].References,
                                       Cache(n).References))
    /\ [][\A n \in Chains :
            (/\ CacheRound[n] # Nil /\ CacheRound'[n] # Nil
             /\ Cache(n).Snapshots # <<>>
             /\ CacheRound'[n][1].Number = Cache(n).Number)
            => CacheRound'[n][1].References = Cache(n).References]_vars

\* an announcement of other references for a round that holds a snapshot
\* was dropped
C31_Witness ==
    /\ last.action = CosiActionExternalAnnouncement
    /\ last.exit = "references differ"
    /\ \E n \in Chains : CacheRound[n] # Nil /\ Cache(n).Snapshots # <<>>

\* tryToStartNewRound finds the open round of the chain of s, s is of the
\* round after it, and startNewRound seals the open round
SealsFor(st, s) ==
    /\ ~(st.final[s.NodeId] = Nil /\ s.RoundNumber = 0)
    /\ st.cache[s.NodeId] # Nil
    /\ s.RoundNumber = st.cache[s.NodeId][1].Number + 1
    /\ ~startNewRound(st, s, st.cache[s.NodeId][1], TRUE).err
    /\ startNewRound(st, s, st.cache[s.NodeId][1], TRUE).round # Nil

\* C32: tryToStartNewRound changes the rounds and the storage only when the
\* snapshot is of the round after the open round of its chain and
\* startNewRound seals the open round: the new open round, installed and
\* persisted as the head of the chain, has the number, the timestamp and the
\* self reference of the snapshot and no snapshots, and its external
\* reference is the one of the snapshot, or the one of the round before it
\* when the external round of the snapshot is not known.  Otherwise nothing
\* changes, and an accepted chain without an open round is an error.
C32_StartsOnlyNextRound ==
    [][(/\ Handling(CosiActionFinalization)
        /\ inflight' = <<>>
        /\ verifyFinalization(inflight[1].Snapshot)) =>
        LET s == inflight[1].Snapshot
            n == s.NodeId
            t == tryToStartNewRound(St, s)
            r == startNewRound(St, s, St.cache[n][1], TRUE)
        IN  /\ IF SealsFor(St, s)
               THEN /\ ~t.err
                    /\ t.st.cache[n] =
                        Some([NodeId |-> n, Number |-> s.RoundNumber,
                              Timestamp |-> s.Timestamp,
                              References |->
                                [Self |-> s.References.Self,
                                 External |->
                                    IF r.dummy
                                    THEN St.cache[n][1].References.External
                                    ELSE s.References.External],
                              Snapshots |-> <<>>])
                    /\ r.dummy <=> ReadRound(St, s.References.External) = Nil
                    /\ t.st.final[n] = asFinal(St.cache[n][1])
                    /\ t.st.heads[n] =
                        [Number |-> s.RoundNumber,
                         References |-> t.st.cache[n][1].References]
                    /\ \A c \in Chains \ {n} :
                        /\ t.st.cache[c] = St.cache[c]
                        /\ t.st.final[c] = St.final[c]
                        /\ t.st.heads[c] = St.heads[c]
                    /\ t.st.snaps = St.snaps /\ t.st.links = St.links
                    /\ t.st.topo = St.topo /\ t.st.ver = St.ver
               ELSE t.st = St
            /\ (St.cache[n] = Nil /\ ~(St.final[n] = Nil /\ s.RoundNumber = 0))
                => t.err
            /\ last'.exit = "in node" =>
                /\ CacheRound' = t.st.cache /\ FinalRound' = t.st.final
                /\ heads' = t.st.heads /\ rounds' = t.st.rounds]_vars

\* a finalized snapshot whose external round is not known opened the next
\* round of its chain and sealed the round before it
C32_Witness ==
    /\ last.action = CosiActionFinalization
    /\ last.exit = "finalized"
    /\ LET s == snapshots[Len(snapshots)].Snapshot
       IN  /\ ReadRound(St, s.References.External) = Nil
           /\ Cache(s.NodeId).Number = s.RoundNumber
           /\ Final(s.NodeId).Number = s.RoundNumber - 1
           /\ Final(s.NodeId).Hash = s.References.Self
           /\ heads[s.NodeId].Number = s.RoundNumber
           /\ s.RoundNumber > GenesisCache(s.NodeId).Number
           /\ Cache(s.NodeId).Snapshots = <<s>>

\* C33: when a handler returns the error of a storage read, CosiLoop keeps
\* running and takes the actions queued after the failed one.
C33_ReadErrorRecovered ==
    last.exit = "read error" => loop = "run"

\* the hashes of the snapshots with which B may open its next round at the
\* start, on the final round of another chain
NextRoundHashes ==
    {PayloadHash([Version |-> SnapshotVersion, NodeId |-> "B",
                  RoundNumber |-> AcceptedState.cache["B"][1].Number + 1,
                  References |->
                    [Self |-> asFinal(AcceptedState.cache["B"][1])[1].Hash,
                     External |-> AcceptedState.final[n][1].Hash],
                  Transaction |-> "t2", Timestamp |-> InitialClock,
                  Signature |-> Nil]) : n \in Chains \ {"B"}}

\* the node sends the response it computes from nonce r for the challenge
\* that the aggregate cosi makes for hash
Responds(hash, r, cosi) ==
    \E msg \in sent :
        /\ msg.type = "Response"
        /\ msg.hash = hash
        /\ msg.response = Response(IndexOf(Self), r, cosi.R, hash)

\* C34: once the node has sent a response computed from a nonce for a
\* snapshot hash and an aggregate commitment, it never sends a response
\* computed from that nonce for the same hash and another aggregate
\* commitment.
C34_NonceUsedOnce ==
    \A hash \in NextRoundHashes : \A r \in Nonces : \A cosi \in Aggregates :
        [](Responds(hash, r, cosi) =>
            [](\A other \in Aggregates \ {cosi} : ~Responds(hash, r, other)))

\* the chain of the snapshot being handled records its transaction already
Recorded(m) ==
    CheckTransactionInNode(St, m.Snapshot.NodeId, m.Snapshot.Transaction)

\* C35: no chain records a transaction in two written snapshots, every
\* handling of a Finalization writes one snapshot at most and takes one
\* topological order for it, and the handling of a Finalization whose
\* transaction the chain records already writes nothing, takes no order and
\* adds nothing to the open round of the chain.
C35_PersistedOnce ==
    /\ [](\A i, j \in 1..Len(snapshots) :
            (/\ snapshots[i].Snapshot.NodeId = snapshots[j].Snapshot.NodeId
             /\ snapshots[i].Snapshot.Transaction
                = snapshots[j].Snapshot.Transaction) => i = j)
    /\ [][(Handling(CosiActionFinalization) /\ inflight' = <<>>) =>
            /\ Len(snapshots') <= Len(snapshots) + 1
            /\ topo' - topo = Len(snapshots') - Len(snapshots)
            /\ Recorded(inflight[1]) =>
                /\ UNCHANGED <<snapshots, topo, links>>
                /\ \A n \in Chains :
                    (CacheRound[n] # Nil /\ CacheRound'[n] # Nil) =>
                        CacheRound'[n][1].Snapshots
                            \in {Cache(n).Snapshots, <<>>}]_vars

\* a Finalization that was queued before its snapshot was written is dropped
\* after it
C35_Witness ==
    /\ last.action = CosiActionFinalization
    /\ last.exit = "in node"
    /\ snapshots[Len(snapshots)].Snapshot.Timestamp >= InitialClock
    /\ snapshots[Len(snapshots)].TopologicalOrder = topo - 1

\* the responses an aggregator records come from peers whose commitments it
\* records, and are no more than the commitments
ResponsesOfCommitted ==
    \A id \in DOMAIN aggs :
        /\ {p[1] : p \in aggs[id].Responses}
            \subseteq {p[1] : p \in aggs[id].Commitments}
        /\ Cardinality(aggs[id].Responses)
            <= Cardinality(aggs[id].Commitments)

\* C36: the responses an aggregator records come from peers whose
\* commitments it records and never outnumber the commitments, and no step
\* of CosiAggregateSelfResponses or cosiHandleResponse uses the signature of
\* a snapshot that has none yet: the process does not die of it.
C36_ResponsesAfterChallenge ==
    /\ []ResponsesOfCommitted
    /\ [][loop' = "panic" =>
            (last' # NoHandler /\ last'.exit # "nil signature")]_vars

Qualifies(p) ==
    \E i \in 1..Len(BuildGraph) : /\ BuildGraph[i].NodeId = p.NodeId
                                  /\ BuildGraph[i].Number >= p.Number

LastOrder(p) ==
    LET ss == ReadSnapshotsForNodeRound(St, p.NodeId, p.Number)
    IN  IF ss[Len(ss)].TopologicalOrder = 0 THEN 1
        ELSE ss[Len(ss)].TopologicalOrder

C38_OffsetIsMinimum ==
    neighbor.graph # Nil =>
        LET g == neighbor.graph[1]
            qualifying == {i \in 1..Len(g) : Qualifies(g[i])}
        IN  /\ (neighbor.compared = 0) <=> (qualifying = {})
            /\ qualifying # {} =>
                /\ \E i \in qualifying : neighbor.compared = LastOrder(g[i])
                /\ \A i \in qualifying : neighbor.compared <= LastOrder(g[i])
            /\ neighbor.compared =
                compareRoundGraphAndGetTopologicalOffset(St, BuildGraph,
                    SelectSeq(g, Qualifies)).offset

\* the second of two qualifying points has the snapshot of order 0 and gives
\* the offset 1, below the order of the first
C38_Witness ==
    /\ neighbor.graph # Nil
    /\ Len(neighbor.graph[1]) = 2
    /\ Qualifies(neighbor.graph[1][1])
    /\ Qualifies(neighbor.graph[1][2])
    /\ LastOrder(neighbor.graph[1][1]) > 1
    /\ ReadSnapshotsForNodeRound(St, neighbor.graph[1][2].NodeId,
                                 neighbor.graph[1][2].Number)[1]
            .TopologicalOrder = 0
    /\ neighbor.compared = 1
    /\ loop = "run"

\* C39: in the loop that synchronises a neighbor, two sends of one snapshot
\* are at least 2 * SnapshotRoundGap apart; the snapshots of one call are
\* sent in increasing topological order; the offset syncToNeighborSince
\* returns is the topological order of the last snapshot it processed, the
\* one whose send failed not counted; nothing is sent while the offset is 0,
\* and an offset that is not 0 never becomes 0 again.
SentApart ==
    \A h \in DOMAIN neighbor.sends :
        \A i \in 1..Len(neighbor.sends[h]) :
            \A j \in (i + 1)..Len(neighbor.sends[h]) :
                neighbor.sends[h][j] >=
                    neighbor.sends[h][i] + 2 * SnapshotRoundGap

SentInOrder ==
    \A i \in 1..Len(neighbor.out) :
        \A j \in (i + 1)..Len(neighbor.out) :
            neighbor.out[i].TopologicalOrder < neighbor.out[j].TopologicalOrder

\* the snapshots the last call processed: all it read, or those before the
\* one whose send failed
Processed ==
    LET read == ReadSnapshotsSinceTopology(St, neighbor.since, SyncBatch)
    IN  IF neighbor.bad = -1 THEN read
        ELSE SelectSeq(read, LAMBDA x : x.TopologicalOrder < neighbor.bad)

ReturnsLastProcessed ==
    neighbor.since > 0 =>
        /\ neighbor.returned =
                IF Processed = <<>> THEN neighbor.since
                ELSE Processed[Len(Processed)].TopologicalOrder
        /\ neighbor.offset = neighbor.returned
        /\ \A i \in 1..Len(neighbor.out) :
                /\ neighbor.out[i].TopologicalOrder # neighbor.bad
                /\ \E k \in 1..Len(Processed) : Processed[k] = neighbor.out[i]

SilentAtZero ==
    neighbor.offset = 0 => (neighbor.sends = <<>> /\ neighbor.out = <<>>)

C39_SyncLoop ==
    /\ [](SentApart /\ SentInOrder /\ ReturnsLastProcessed /\ SilentAtZero)
    /\ [][neighbor.offset # 0 => neighbor'.offset # 0]_vars

\* a snapshot is sent again once its window has passed, in a call in which
\* the send of a later snapshot fails
C39_Witness ==
    /\ neighbor.bad # -1
    /\ neighbor.out # <<>>
    /\ neighbor.returned < neighbor.bad
    /\ \E h \in DOMAIN neighbor.sends :
            /\ Len(neighbor.sends[h]) = 2
            /\ neighbor.sends[h][2] = now

====
